---- MODULE Spec2Model ----
(***************************************************************************)
(* Model of the MCP DevOps Plan server (src/src/lib/server.js).            *)
(*                                                                         *)
(* The server registers fourteen tools.  Every tool handler is an async    *)
(* function: it runs without interruption up to its next `await fetch`     *)
(* (or the `await` of the 1-second timer), and resumes when that promise   *)
(* settles.  The model has one action per such resumption.  The only state *)
(* shared by the handlers is the module-level variable globalCookies.      *)
(*                                                                         *)
(* Texts are sequences of tokens, so that String.prototype.includes and    *)
(* template literals are computed, not assumed.                            *)
(***************************************************************************)
EXTENDS Integers, Sequences, FiniteSets, TLC

VARIABLES
    globalCookies,  \* server.js:62  the process-wide session slot
    inv,            \* per handler activation: tool, arguments, position, locals, trace, result
    started,        \* number of tool invocations started so far
    bootstraps,     \* number of GET /ccmweb/rest/analytics/serverurl requests issued so far
    acqFailed       \* whether some session acquisition has failed so far

vars == <<globalCookies, inv, started, bootstraps, acqFailed>>

-----------------------------------------------------------------------------
(* Bounds *)

\* Total number of tool invocations in one behaviour: of the specification that runs them
\* one after another, and of the one that interleaves them.
MaxInvocations == 3
MaxConcInvocations == 2

-----------------------------------------------------------------------------
(* JavaScript values *)

\* JS null and undefined; both are falsy, as is the empty string.
Null == "<null>"
Undefined == "<undefined>"
Falsy(v) == v \in {"", Null, Undefined}

\* Cookie strings the Plan server may hand out in a set-cookie header.
Cookies == {"c1", "c2"}

\* Handler activations that the host runtime may run.
Procs == {"p1", "p2"}

-----------------------------------------------------------------------------
(* Token sequences (texts) *)

\* s.includes(pat): pat occurs in s as a contiguous run of tokens.
Includes(s, pat) ==
    \E i \in 0..(Len(s) - Len(pat)) :
        \A j \in 1..Len(pat) : s[i + j] = pat[j]

\* Array.prototype.join(sep) of a list of token sequences.
RECURSIVE Join(_, _)
Join(parts, sep) ==
    IF parts = <<>> THEN <<>>
    ELSE IF Len(parts) = 1 THEN parts[1]
    ELSE parts[1] \o sep \o Join(Tail(parts), sep)

\* A JSON string literal, of an atomic string and of a string held as a token sequence.
Quoted(str) == <<"\"", str, "\"">>
QuotedText(text) == <<"\"">> \o text \o <<"\"">>

-----------------------------------------------------------------------------
(* JSON values, as far as the handlers look into them *)

JNull == [t |-> "null"]
JArray(items) == [t |-> "array", items |-> items]
JObject(m) == [t |-> "object", m |-> m]

\* j.k for a non-null JSON value j: undefined when the member is absent.
Get(j, k) ==
    IF j.t = "object" /\ k \in DOMAIN j.m THEN j.m[k] ELSE Undefined

\* Order in which JSON.stringify emits the members the model knows.
KeyOrder ==
    <<"result_set_id", "rows", "dbId", "name", "viewURL", "errorMessage", "id", "applicationName">>

StringifyList(items, F(_)) ==
    <<"[">> \o Join([i \in 1..Len(items) |-> F(items[i])], <<",">>) \o <<"]">>

StringifyRow(row) ==
    <<"{">> \o Quoted("displayName") \o <<":">> \o Quoted(row.displayName) \o <<",">>
            \o Quoted("values") \o <<":">> \o StringifyList(row.values, QuotedText) \o <<"}">>

StringifyMember(k, v) ==
    Quoted(k) \o <<":">> \o (IF k = "rows" THEN StringifyList(v, StringifyRow) ELSE Quoted(v))

StringifyObject(o) ==
    LET keys == SelectSeq(KeyOrder,
                          LAMBDA k : k \in DOMAIN o.m /\ (k = "rows" \/ o.m[k] # Undefined))
    IN  <<"{">> \o Join([i \in 1..Len(keys) |-> StringifyMember(keys[i], o.m[keys[i]])], <<",">>)
               \o <<"}">>

\* JSON.stringify(j)
Stringify(j) ==
    CASE j.t = "null"   -> <<"null">>
      [] j.t = "array"  -> StringifyList(j.items, StringifyObject)
      [] j.t = "object" -> StringifyObject(j)

-----------------------------------------------------------------------------
(* HTTP responses *)

\* A response body is either JSON or some other text.
TextBody(text) == [kind |-> "text", text |-> text]
JsonBody(j) == [kind |-> "json", json |-> j]

\* response.text()
BodyText(b) == IF b.kind = "text" THEN b.text ELSE Stringify(b.json)

\* What a rejected fetch promise and a failed response.json() carry in e.message.
FetchFailed == <<"fetch failed">>
JsonSyntaxError == <<"Unexpected token">>
NullTypeError == <<"Cannot read properties of null">>

\* response.ok taken as "not a server error".
OkBelow500(r) == r.status < 500

\* response.ok
Ok(r) == r.status \in 200..299

\* response.statusText
StatusText(r) ==
    CASE r.status = 200 -> "OK"
      [] r.status = 400 -> "Bad Request"
      [] r.status = 422 -> "Unprocessable Entity"
      [] r.status = 500 -> "Internal Server Error"

\* fetch(...) rejected (network-level failure): no response at all.
NetworkError == [net |-> TRUE, status |-> 0, body |-> TextBody(<<>>)]
HttpResponse(status, body) == [net |-> FALSE, status |-> status, body |-> body]

Statuses == {200, 400, 422, 500}

\* Query result rows; each value is a string held as a token sequence.
RowAlpha == [displayName |-> "Alpha", values |-> << <<"1">>, <<"Alpha">>, <<"Task", "\n", " ", "Bug">> >>]
RowBeta == [displayName |-> "Beta", values |-> << <<"2">>, <<"Beta">>, <<"Story">> >>]

Bodies ==
    { TextBody(<<"denied">>),
      TextBody(<<"upstream", "status", "400">>),
      JsonBody(JNull),
      JsonBody(JArray(<<>>)),
      JsonBody(JArray(<<JObject([dbId |-> "9", name |-> "app"])>>)),
      JsonBody(JObject([errorMessage |-> "bad"])),
      JsonBody(JObject([result_set_id |-> "rs1"])),
      JsonBody(JObject([rows |-> <<>>])),
      JsonBody(JObject([rows |-> <<RowAlpha, RowBeta>>])),
      JsonBody(JObject([dbId |-> "77"])),
      JsonBody(JObject([dbId |-> "77", viewURL |-> "/v"])) }

\* Everything the Plan server (or the network) may answer to an authenticated request.
Responses ==
    {NetworkError} \cup {HttpResponse(st, b) : st \in Statuses, b \in Bodies}

\* What may come back from GET /ccmweb/rest/analytics/serverurl: setCookie is the value
\* of response.headers.get('set-cookie') (null when the header is absent).
BootstrapResponses ==
    {[net |-> TRUE, status |-> 0, setCookie |-> Null]}
    \cup {[net |-> FALSE, status |-> st, setCookie |-> c] :
            st \in {200, 500}, c \in Cookies \cup {Null, ""}}

-----------------------------------------------------------------------------
(* Requests, trace events and tool results *)

\* A URL below {serverURL}/ccmweb/rest/ (teamspace and application left out: every
\* request of the process carries the same ones).
Url(path) ==
    [path |-> path, operation |-> Undefined, actionName |-> Undefined,
     pageNumber |-> Undefined, useDbid |-> Undefined]

\* Request bodies.
NoBody == [kind |-> "none"]
EmptyObjectBody == [kind |-> "{}"]
\* JSON.stringify drops a member whose value is undefined, so { dbId: undefined, fields }
\* and { fields } are the same body.
CommitBody(dbId, fields) == [kind |-> "fields", dbId |-> dbId, fields |-> fields]
FieldsBody(fields) == CommitBody(Undefined, fields)
QueryBody(entity, fieldFilters) ==
    [kind |-> "query", primaryEntityDefName |-> entity, fieldFilters |-> fieldFilters]

Request(method, url, body) ==
    [ev |-> "request", method |-> method, url |-> url, body |-> body,
     auth |-> TRUE, cookie |-> Undefined]

\* Tool results handed back to the MCP SDK.
NoResult == [kind |-> "none", text |-> <<>>]
Content(text) == [kind |-> "content", text |-> text]       \* { content: [{type:'text', text}] }
ErrorObject(msg) == [kind |-> "error", text |-> msg]       \* { error: msg }, no content
ReturnsUndefined == [kind |-> "undefined", text |-> <<>>]  \* the handler falls off its end

\* The handler sends a request (reading the session slot for the Cookie header) and
\* suspends at `await fetch(...)`.
Fetch(s, cookie, req, pc) ==
    [s EXCEPT !.trace = Append(@, [req EXCEPT !.cookie = cookie]), !.pc = pc]

\* The awaited fetch settled.
Received(s, r) ==
    [s EXCEPT !.trace = Append(@, [ev |-> "response", net |-> r.net, status |-> r.status])]

\* The awaited bootstrap fetch settled; the event keeps the set-cookie header it carried.
ReceivedBootstrap(s, r) ==
    [s EXCEPT !.trace = Append(@, [ev |-> "response", net |-> r.net, status |-> r.status,
                                   setCookie |-> r.setCookie])]

\* The handler returns; its locals are gone.
Return(s, result) ==
    [s EXCEPT !.pc = "returned", !.result = result,
              !.targetDbid = Undefined, !.i = 0, !.movementData = JNull]

-----------------------------------------------------------------------------
(* Tool arguments *)

NoArgs ==
    [dbid |-> Undefined, name |-> Undefined, startDate |-> Undefined, endDate |-> Undefined,
     fields |-> <<>>, targetState |-> Undefined, projectId |-> Undefined,
     owner |-> Undefined, workitemType |-> Undefined, component |-> Undefined,
     title |-> Undefined, description |-> Undefined, workItemType |-> Undefined]

\* A handler activation that is not running.
Idle ==
    [tool |-> "none", args |-> NoArgs, pc |-> "idle", targetDbid |-> Undefined, i |-> 0,
     movementData |-> JNull, trace |-> <<>>, result |-> NoResult]

-----------------------------------------------------------------------------
(* Session acquisition *)

BootstrapRequest ==
    [Request("GET", Url(<<"analytics", "serverurl">>), NoBody) EXCEPT !.auth = FALSE]

\* `if (!globalCookies)` with a plausible slip, `globalCookies !== undefined`.
NeedsSessionNotUndefined(cookies) == cookies # Undefined

\* `if (!globalCookies)`, line 176 and its copies: the handler has to acquire a session.
NeedsSession(cookies) == Falsy(cookies)

\* getCookiesFromServer without its `if (!response.ok)` test.
getCookiesFromServerIgnoringStatus(r) ==
    IF r.net THEN Null
    ELSE IF Falsy(r.setCookie) THEN Null
    ELSE r.setCookie

\* What getCookiesFromServer returns for bootstrap response r: the cookie string, or
\* null on a network error, a non-OK response, or a missing or empty set-cookie header.
getCookiesFromServer(r) ==
    IF r.net THEN Null
    ELSE IF ~Ok(r) THEN Null
    ELSE IF Falsy(r.setCookie) THEN Null
    ELSE r.setCookie

-----------------------------------------------------------------------------
(* Helpers shared by the handlers' translations *)

\* `await response.json()` succeeds only on a JSON body.
Parses(r) == r.body.kind = "json"
Json(r) == r.body.json

\* `data && data.rows` read as if an empty array were falsy.
HasRowsNonEmpty(j) == j.t = "object" /\ "rows" \in DOMAIN j.m /\ j.m.rows # <<>>

\* `data && data.rows` is truthy (an empty array is truthy in JavaScript).
HasRows(j) == j.t = "object" /\ "rows" \in DOMAIN j.m

QueryUrl == Url(<<"query">>)
ResultSetUrl(resultSetId) == Url(<<"query", resultSetId>>)
ResultPageUrl(resultSetId) == [Url(<<"query", resultSetId>>) EXCEPT !.pageNumber = "1"]
RecordsUrl(entityType) == Url(<<"records", entityType>>)
RecordUrl(entityType, dbid) == Url(<<"records", entityType, dbid>>)

\* The part of a query tool between `await fetch(query)` settling and the next fetch:
\* lines 214-228 and their copies.  Yields the error message thrown, or <<>> when the
\* result set id was obtained.
QueryFailure(r, withResponse) ==
    IF r.net THEN FetchFailed
    ELSE IF ~Parses(r) THEN JsonSyntaxError
    ELSE IF Json(r).t = "null" THEN NullTypeError
    ELSE IF Falsy(Get(Json(r), "result_set_id"))
         THEN IF withResponse
              THEN <<"Failed to retrieve result set ID. Response:">> \o Stringify(Json(r))
              ELSE <<"Failed to retrieve result set ID">>
    ELSE <<>>

\* The display names taken from the last row to the first.
DisplayNamesReversed(rows) == [i \in 1..Len(rows) |-> rows[Len(rows) + 1 - i].displayName]
DisplayNames(rows) == [i \in 1..Len(rows) |-> rows[i].displayName]

-----------------------------------------------------------------------------
(* get_available_projects, server.js:168-246 *)

get_available_projects_catch(s, message) ==
    Return(s, Content(<<"Error retrieving projects:">> \o message))

get_available_projects(s, cookie, r) ==
    CASE s.pc = "start" ->
            Fetch(s, cookie, Request("POST", QueryUrl, QueryBody("Project", <<>>)), "queryResponse")
      [] s.pc = "queryResponse" ->
            IF QueryFailure(r, FALSE) # <<>>
            THEN get_available_projects_catch(s, QueryFailure(r, FALSE))
            ELSE Fetch(s, cookie,
                       Request("GET", ResultPageUrl(Get(Json(r), "result_set_id")), NoBody),
                       "projectsResponse")
      [] s.pc = "projectsResponse" ->
            IF r.net THEN get_available_projects_catch(s, FetchFailed)
            ELSE IF ~Parses(r) THEN get_available_projects_catch(s, JsonSyntaxError)
            ELSE IF HasRows(Json(r))
                 THEN Return(s, Content(<<"Projects retrieved:">>
                          \o StringifyList(DisplayNames(Json(r).m.rows), Quoted)))
            ELSE get_available_projects_catch(s, <<"Failed to retrieve projects">>)

-----------------------------------------------------------------------------
(* get_available_components, server.js:249-334 *)

\* JSON.stringify("[]"): the string "[]" as a JSON string literal.
EmptyListLiteral == Quoted("[]")

get_available_components_catch(s, message) ==
    Return(s, Content(<<"Components retrieved:">> \o EmptyListLiteral))

get_available_components(s, cookie, r) ==
    CASE s.pc = "start" ->
            Fetch(s, cookie, Request("POST", QueryUrl, QueryBody("Component", <<>>)), "queryResponse")
      [] s.pc = "queryResponse" ->
            IF QueryFailure(r, FALSE) # <<>>
            THEN get_available_components_catch(s, QueryFailure(r, FALSE))
            ELSE Fetch(s, cookie,
                       Request("GET", ResultSetUrl(Get(Json(r), "result_set_id")), NoBody),
                       "componentsResponse")
      [] s.pc = "componentsResponse" ->
            IF r.net THEN get_available_components_catch(s, FetchFailed)
            ELSE IF ~Parses(r) THEN get_available_components_catch(s, JsonSyntaxError)
            ELSE IF HasRows(Json(r))
                 THEN Return(s, Content(<<"Components retrieved:">>
                          \o StringifyList(DisplayNames(Json(r).m.rows), Quoted)))
            ELSE IF Json(r).t = "null" THEN get_available_components_catch(s, NullTypeError)
            ELSE IF Json(r).t = "array" /\ Len(Json(r).items) = 0
                 THEN Return(s, Content(<<"Components retrieved:">> \o EmptyListLiteral))
            ELSE Return(s, ReturnsUndefined)

-----------------------------------------------------------------------------
(* get_sprints, server.js:337-420, and get_releases, server.js:423-506 *)

get_sprints_catch(s, message) ==
    Return(s, Content(<<"Error retrieving sprints:">> \o message))

get_sprints(s, cookie, r) ==
    CASE s.pc = "start" ->
            Fetch(s, cookie, Request("POST", QueryUrl, QueryBody("Sprint", <<>>)), "queryResponse")
      [] s.pc = "queryResponse" ->
            IF QueryFailure(r, TRUE) # <<>>
            THEN get_sprints_catch(s, QueryFailure(r, TRUE))
            ELSE Fetch(s, cookie,
                       Request("GET", ResultSetUrl(Get(Json(r), "result_set_id")), NoBody),
                       "sprintsResponse")
      [] s.pc = "sprintsResponse" ->
            IF r.net THEN get_sprints_catch(s, FetchFailed)
            ELSE IF ~Parses(r) THEN get_sprints_catch(s, JsonSyntaxError)
            ELSE IF HasRows(Json(r))
                 THEN Return(s, Content(<<"Sprints retrieved:">> \o Stringify(Json(r))))
            ELSE get_sprints_catch(s, <<"Failed to retrieve sprints">>)

get_releases_catch(s, message) ==
    Return(s, Content(<<"Error retrieving releases:">> \o message))

get_releases(s, cookie, r) ==
    CASE s.pc = "start" ->
            Fetch(s, cookie, Request("POST", QueryUrl, QueryBody("Release", <<>>)), "queryResponse")
      [] s.pc = "queryResponse" ->
            IF QueryFailure(r, TRUE) # <<>>
            THEN get_releases_catch(s, QueryFailure(r, TRUE))
            ELSE Fetch(s, cookie,
                       Request("GET", ResultSetUrl(Get(Json(r), "result_set_id")), NoBody),
                       "releasesResponse")
      [] s.pc = "releasesResponse" ->
            IF r.net THEN get_releases_catch(s, FetchFailed)
            ELSE IF ~Parses(r) THEN get_releases_catch(s, JsonSyntaxError)
            ELSE IF HasRows(Json(r))
                 THEN Return(s, Content(<<"Releases retrieved:">> \o Stringify(Json(r))))
            ELSE get_releases_catch(s, <<"Failed to retrieve releases">>)

-----------------------------------------------------------------------------
(* get_available_workitem_types, server.js:832-915 *)

\* text.split(sep) for a one-token separator.
RECURSIVE Split(_, _)
Split(text, sep) ==
    IF \A i \in 1..Len(text) : text[i] # sep THEN <<text>>
    ELSE LET k == CHOOSE i \in 1..Len(text) :
                     text[i] = sep /\ \A j \in 1..(i - 1) : text[j] # sep
         IN  <<SubSeq(text, 1, k - 1)>> \o Split(SubSeq(text, k + 1, Len(text)), sep)

\* text.trim(): leading and trailing blanks dropped.
RECURSIVE Trim(_)
Trim(text) ==
    IF text # <<>> /\ Head(text) = " " THEN Trim(Tail(text))
    ELSE IF text # <<>> /\ text[Len(text)] = " " THEN Trim(SubSeq(text, 1, Len(text) - 1))
    ELSE text

\* Array.prototype.flat() of a list of lists.
RECURSIVE Flat(_)
Flat(lists) == IF lists = <<>> THEN <<>> ELSE Head(lists) \o Flat(Tail(lists))

WorkItemTypesOf(rows) ==
    Flat([i \in 1..Len(rows) |->
            LET types == Split(rows[i].values[3], "\n")     \* row.values[2], zero-based
            IN  [k \in 1..Len(types) |-> Trim(types[k])]])

get_available_workitem_types_catch(s, message) ==
    Return(s, Content(<<"Error retrieving work item types:">> \o message))

get_available_workitem_types(s, cookie, r) ==
    CASE s.pc = "start" ->
            Fetch(s, cookie, Request("POST", QueryUrl, QueryBody("Project", <<>>)), "queryResponse")
      [] s.pc = "queryResponse" ->
            IF QueryFailure(r, FALSE) # <<>>
            THEN get_available_workitem_types_catch(s, QueryFailure(r, FALSE))
            ELSE Fetch(s, cookie,
                       Request("GET", ResultPageUrl(Get(Json(r), "result_set_id")), NoBody),
                       "workItemTypesResponse")
      [] s.pc = "workItemTypesResponse" ->
            IF r.net THEN get_available_workitem_types_catch(s, FetchFailed)
            ELSE IF ~Parses(r) THEN get_available_workitem_types_catch(s, JsonSyntaxError)
            ELSE IF HasRows(Json(r))
                 THEN Return(s, Content(<<"Available work item types:">>
                          \o StringifyList(WorkItemTypesOf(Json(r).m.rows), QuotedText)))
            ELSE get_available_workitem_types_catch(s, <<"Failed to retrieve work item types">>)

-----------------------------------------------------------------------------
(* create_work_item, server.js:918-982 *)

\* The createWorkItemBody template (server.js:1547-1687) with the five fields the handler
\* overwrites; component stays the template's "" when the argument is undefined.
WorkItemBody(a) ==
    [kind |-> "workitem",
     Component |-> IF a.component = Undefined THEN "" ELSE a.component,
     Project |-> a.projectId, Title |-> a.title, Description |-> a.description,
     WIType |-> a.workItemType]

create_work_item_catch(s, message) ==
    Return(s, Content(<<"Error creating work item:">> \o message))

create_work_item(s, cookie, r) ==
    CASE s.pc = "start" ->
            Fetch(s, cookie,
                  Request("POST",
                          [Url(<<"records", "WorkItem", "">>) EXCEPT
                              !.operation = "Commit", !.useDbid = "false"],
                          WorkItemBody(s.args)),
                  "response")
      [] s.pc = "response" ->
            IF r.net THEN create_work_item_catch(s, FetchFailed)
            ELSE IF ~Parses(r) THEN create_work_item_catch(s, JsonSyntaxError)
            ELSE IF Json(r).t = "null" THEN create_work_item_catch(s, NullTypeError)
            ELSE IF ~Falsy(Get(Json(r), "viewURL"))
                 THEN Return(s, Content(<<"Work item created successfully. dbId:",
                                          Get(Json(r), "dbId"), ". View it at:",
                                          "serverURL", "/#", Get(Json(r), "viewURL")>>))
            ELSE create_work_item_catch(s, <<"Failed to create work item">>)

-----------------------------------------------------------------------------
(* get_work_items, server.js:985-1094 *)

FieldFilter(fieldPath, value) == [fieldPath |-> fieldPath, compOp |-> "COMP_OP_EQ", values |-> <<value>>]

WorkItemFilters(a) ==
    <<FieldFilter("Project", a.projectId)>>
    \o (IF ~Falsy(a.owner) THEN <<FieldFilter("Owner", "[CURRENT_USER]")>> ELSE <<>>)
    \o (IF ~Falsy(a.workitemType) THEN <<FieldFilter("WIType", a.workitemType)>> ELSE <<>>)

get_work_items_catch(s, message) ==
    Return(s, Content(<<"Error retrieving work items:">> \o message))

get_work_items(s, cookie, r) ==
    CASE s.pc = "start" ->
            Fetch(s, cookie,
                  Request("POST", QueryUrl, QueryBody("WorkItem", WorkItemFilters(s.args))),
                  "queryResponse")
      [] s.pc = "queryResponse" ->
            IF QueryFailure(r, TRUE) # <<>>
            THEN get_work_items_catch(s, QueryFailure(r, TRUE))
            ELSE Fetch(s, cookie,
                       Request("GET", ResultPageUrl(Get(Json(r), "result_set_id")), NoBody),
                       "workItemsResponse")
      [] s.pc = "workItemsResponse" ->
            IF r.net THEN get_work_items_catch(s, FetchFailed)
            ELSE IF ~Parses(r) THEN get_work_items_catch(s, JsonSyntaxError)
            ELSE IF Json(r).t # "null"
                 THEN Return(s, Content(<<"Work items retrieved:">> \o Stringify(Json(r))))
            ELSE get_work_items_catch(s, <<"Failed to retrieve work items">>)

-----------------------------------------------------------------------------
(* delete_work_item, server.js:1097-1138 *)

delete_work_item_catch(s, message) ==
    Return(s, Content(<<"Error deleting work item:">> \o message))

delete_work_item(s, cookie, r) ==
    CASE s.pc = "start" ->
            Fetch(s, cookie,
                  Request("DELETE",
                          [RecordUrl("WorkItem", s.args.dbid) EXCEPT
                              !.actionName = "Delete", !.useDbid = "true"],
                          NoBody),
                  "response")
      [] s.pc = "response" ->
            IF r.net THEN delete_work_item_catch(s, FetchFailed)
            ELSE IF Ok(r)
                 THEN Return(s, Content(<<"Work item", s.args.dbid, "deleted successfully">>))
            ELSE delete_work_item_catch(s, <<"Failed to delete work item">>)

-----------------------------------------------------------------------------
(* get_applications, server.js:1265-1313 *)

Application(app) == JObject([id |-> Get(app, "dbId"), applicationName |-> Get(app, "name")])

get_applications_catch(s, message) ==
    Return(s, Content(<<"Error retrieving applications:">> \o message))

get_applications(s, cookie, r) ==
    CASE s.pc = "start" ->
            Fetch(s, cookie, Request("GET", Url(<<"databases">>), NoBody), "response")
      [] s.pc = "response" ->
            IF r.net THEN get_applications_catch(s, FetchFailed)
            ELSE IF ~Parses(r) THEN get_applications_catch(s, JsonSyntaxError)
            ELSE IF Json(r).t = "array"
                 THEN Return(s, Content(<<"Applications retrieved:">>
                          \o Stringify(JArray([i \in 1..Len(Json(r).items) |->
                                                  Application(Json(r).items[i])]))))
            ELSE get_applications_catch(s, <<"Failed to retrieve applications">>)

-----------------------------------------------------------------------------
(* get_available_states, server.js:1317-1419 *)

get_available_states_catch(s, message) ==
    Return(s, Content(<<"Error retrieving state transition matrix:">> \o message))

\* The records the model's server answers with carry no `actions`, so the matrix built at
\* lines 1356-1401 is empty; a non-array answer takes the branch of lines 1402-1405.
get_available_states(s, cookie, r) ==
    CASE s.pc = "start" ->
            Fetch(s, cookie, Request("GET", RecordsUrl("WorkItem"), NoBody), "response")
      [] s.pc = "response" ->
            IF r.net THEN get_available_states_catch(s, FetchFailed)
            ELSE IF ~Ok(r)
                 THEN get_available_states_catch(s,
                          <<"Failed to get state transition matrix with", "status", ToString(r.status), ":">>
                          \o BodyText(r.body))
            ELSE IF ~Parses(r) THEN get_available_states_catch(s, JsonSyntaxError)
            ELSE Return(s, Content(
                     <<"State Transition Matrix:">>
                     \o (IF Json(r).t = "array"
                         THEN <<"No state transitions found in the work items.">>
                         ELSE <<"Unexpected response format. Raw data:">> \o Stringify(Json(r)))
                     \o <<"Raw data:">> \o Stringify(Json(r))))

-----------------------------------------------------------------------------
(* Field descriptors.  Every string inside a descriptor is held as a token sequence. *)

\* The minimal shapes of the Edit phase.
MinimalFieldWithStatus(name, value) ==
    [name |-> name, value |-> value, valueStatus |-> "HAS_VALUE"]
MinimalField(name, value) == [name |-> name, value |-> value]
ListField(name, valueAsList) == [name |-> name, valueAsList |-> valueAsList]

\* `${date} 00:00:00`
DateTime(date) == <<date, " ", "00:00:00">>

EditUrl(entityType, dbid) ==
    [RecordUrl(entityType, dbid) EXCEPT !.operation = "Edit", !.useDbid = "true"]
CommitUrl(entityType, dbid) ==
    [RecordUrl(entityType, dbid) EXCEPT !.operation = "Commit", !.useDbid = "true"]
\* The create POST sent to the plain collection URL.
CreateUrlWithoutOperation(entityType) == RecordsUrl(entityType)
CreateUrl(entityType) ==
    [RecordsUrl(entityType) EXCEPT !.operation = "Edit", !.useDbid = "true"]

\* `${response.status} ${errorText}` and `${response.statusText} - ${errorText}`
StatusAndText(r) == <<ToString(r.status)>> \o BodyText(r.body)
StatusTextAndText(r) == <<StatusText(r), "-">> \o BodyText(r.body)

-----------------------------------------------------------------------------
(* create_or_update_sprint, server.js:509-678 *)

create_or_update_sprint_catch(s, message) ==
    Return(s, Content(
        <<IF ~Falsy(s.args.dbid) THEN "Error updating sprint:" ELSE "Error creating sprint:">>
        \o message))

\* lines 567-576
SprintEditFields(a) ==
    (IF ~Falsy(a.name) THEN <<MinimalField("Name", <<a.name>>)>> ELSE <<>>)
    \o (IF ~Falsy(a.startDate) THEN <<MinimalField("StartDate", <<a.startDate>>)>> ELSE <<>>)
    \o (IF ~Falsy(a.endDate) THEN <<MinimalField("EndDate", <<a.endDate>>)>> ELSE <<>>)

\* One entry of lines 601-644.
SprintCommitField(name, value, type, maxLength) ==
    [name |-> name, value |-> value, valueStatus |-> "HAS_VALUE",
     validationStatus |-> "_KNOWN_VALID", requiredness |-> "MANDATORY",
     requirednessForUser |-> "MANDATORY", type |-> type, valueAsList |-> <<value>>,
     messageText |-> "", maxLength |-> maxLength]

\* lines 599-644
SprintCommitFields(a) ==
    (IF ~Falsy(a.name)
     THEN <<SprintCommitField("Name", <<a.name>>, "SHORT_STRING", 254)>> ELSE <<>>)
    \o (IF ~Falsy(a.startDate)
        THEN <<SprintCommitField("StartDate", DateTime(a.startDate), "DATE_TIME", 0)>> ELSE <<>>)
    \o (IF ~Falsy(a.endDate)
        THEN <<SprintCommitField("EndDate", DateTime(a.endDate), "DATE_TIME", 0)>> ELSE <<>>)

\* lines 566-588: the Edit PATCH on the target sprint.
SprintEdit(s, cookie) ==
    Fetch(s, cookie,
          Request("PATCH", EditUrl("Sprint", s.targetDbid), FieldsBody(SprintEditFields(s.args))),
          "editResponse")

create_or_update_sprint(s, cookie, r) ==
    CASE s.pc = "start" ->
            LET s1 == [s EXCEPT !.targetDbid = s.args.dbid] IN
            IF Falsy(s.args.dbid)
            THEN IF Falsy(s.args.name)
                 THEN create_or_update_sprint_catch(s1,
                          <<"Name is required when creating a new sprint">>)
                 ELSE Fetch(s1, cookie,
                            Request("POST", CreateUrl("Sprint"), FieldsBody(<<>>)),
                            "createResponse")
            ELSE IF Falsy(s.args.name) /\ Falsy(s.args.startDate) /\ Falsy(s.args.endDate)
                 THEN create_or_update_sprint_catch(s1,
                          <<"At least one of name, startDate, or endDate must be provided for update">>)
                 ELSE SprintEdit(s1, cookie)
      [] s.pc = "createResponse" ->
            IF r.net THEN create_or_update_sprint_catch(s, FetchFailed)
            ELSE IF ~Ok(r)
                 THEN create_or_update_sprint_catch(s,
                          <<"Create operation failed:">> \o StatusAndText(r))
            ELSE IF ~Parses(r) THEN create_or_update_sprint_catch(s, JsonSyntaxError)
            ELSE IF Json(r).t = "null" THEN create_or_update_sprint_catch(s, NullTypeError)
            ELSE SprintEdit([s EXCEPT !.targetDbid = Get(Json(r), "dbId")], cookie)
      [] s.pc = "editResponse" ->
            IF r.net THEN create_or_update_sprint_catch(s, FetchFailed)
            ELSE IF ~Ok(r)
                 THEN create_or_update_sprint_catch(s,
                          <<"Edit operation failed:">> \o StatusAndText(r))
            ELSE IF ~Parses(r) THEN create_or_update_sprint_catch(s, JsonSyntaxError)
            ELSE Fetch(s, cookie,
                       Request("PATCH", CommitUrl("Sprint", s.targetDbid),
                               CommitBody(s.targetDbid, SprintCommitFields(s.args))),
                       "commitResponse")
      [] s.pc = "commitResponse" ->
            IF r.net THEN create_or_update_sprint_catch(s, FetchFailed)
            ELSE IF ~Ok(r)
                 THEN create_or_update_sprint_catch(s,
                          <<"Commit operation failed:">> \o StatusAndText(r))
            ELSE IF ~Parses(r) THEN create_or_update_sprint_catch(s, JsonSyntaxError)
            ELSE Return(s, Content(
                     <<IF Falsy(s.args.dbid) THEN "Sprint created successfully:"
                                             ELSE "Sprint updated successfully:">>
                     \o Stringify(Json(r))))

-----------------------------------------------------------------------------
(* create_or_update_release, server.js:681-829 *)

create_or_update_release_catch(s, message) ==
    Return(s, Content(
        <<IF ~Falsy(s.args.dbid) THEN "Error updating release:" ELSE "Error creating release:">>
        \o message))

\* field.value.split(',') without the trim.
SplitOnly(value) == Split(value, ",")

\* field.value.split(',').map(v => v.trim())
SplitTrim(value) ==
    LET parts == Split(value, ",") IN [k \in 1..Len(parts) |-> Trim(parts[k])]

\* lines 743-748: the single descriptor of one Edit PATCH.
ReleaseEditField(field) ==
    IF field.type = "REFERENCE_LIST"
    THEN ListField(field.name, SplitTrim(field.value))
    ELSE MinimalField(field.name, field.value)

\* lines 773-794: the Commit descriptor of one field.
ReleaseCommitField(field) ==
    LET valueAsList == IF field.type = "REFERENCE_LIST" THEN SplitTrim(field.value)
                       ELSE <<field.value>>
    IN  [name |-> field.name,
         value |-> IF field.type = "REFERENCE_LIST" THEN Join(valueAsList, <<"\n">>)
                   ELSE field.value,
         valueStatus |-> "HAS_VALUE",
         validationStatus |-> "_KNOWN_VALID",
         requiredness |-> IF field.name = "Name" THEN "MANDATORY" ELSE "OPTIONAL",
         requirednessForUser |-> IF field.name = "Name" THEN "MANDATORY" ELSE "OPTIONAL",
         type |-> IF Falsy(field.type) THEN "SHORT_STRING" ELSE field.type,
         valueAsList |-> valueAsList,
         messageText |-> "",
         maxLength |-> IF field.type \in {"MULTILINE_STRING", "REFERENCE_LIST"} THEN 0 ELSE 254]

\* lines 741-760: the Edit PATCH of field number i.
ReleaseEdit(s, cookie, i) ==
    Fetch([s EXCEPT !.i = i], cookie,
          Request("PATCH", EditUrl("Release", s.targetDbid),
                  FieldsBody(<<ReleaseEditField(s.args.fields[i])>>)),
          "editResponse")

\* lines 771-810: the Commit PATCH.
ReleaseCommit(s, cookie) ==
    Fetch(s, cookie,
          Request("PATCH", CommitUrl("Release", s.targetDbid),
                  CommitBody(s.targetDbid,
                             [k \in 1..Len(s.args.fields) |-> ReleaseCommitField(s.args.fields[k])])),
          "commitResponse")

\* The loop leaving after its first iteration.
ReleaseLoopOnce(s, cookie, i) ==
    IF i <= 1 /\ i <= Len(s.args.fields) THEN ReleaseEdit(s, cookie, i)
    ELSE ReleaseCommit(s, cookie)

\* The for loop of lines 741-769 entered with field number i next.
ReleaseLoop(s, cookie, i) ==
    IF i <= Len(s.args.fields) THEN ReleaseEdit(s, cookie, i) ELSE ReleaseCommit(s, cookie)

create_or_update_release(s, cookie, r) ==
    CASE s.pc = "start" ->
            LET s1 == [s EXCEPT !.targetDbid = s.args.dbid] IN
            IF Falsy(s.args.dbid)
            THEN IF ~\E k \in 1..Len(s.args.fields) : s.args.fields[k].name = "Name"
                 THEN create_or_update_release_catch(s1,
                          <<"Name field is required when creating a new release">>)
                 ELSE Fetch(s1, cookie,
                            Request("POST", CreateUrl("Release"), FieldsBody(<<>>)),
                            "createResponse")
            ELSE IF Len(s.args.fields) = 0
                 THEN create_or_update_release_catch(s1,
                          <<"At least one field must be provided for update">>)
                 ELSE ReleaseLoop(s1, cookie, 1)
      [] s.pc = "createResponse" ->
            IF r.net THEN create_or_update_release_catch(s, FetchFailed)
            ELSE IF ~Ok(r)
                 THEN create_or_update_release_catch(s,
                          <<"Create operation failed:">> \o StatusAndText(r))
            ELSE IF ~Parses(r) THEN create_or_update_release_catch(s, JsonSyntaxError)
            ELSE IF Json(r).t = "null" THEN create_or_update_release_catch(s, NullTypeError)
            ELSE ReleaseLoop([s EXCEPT !.targetDbid = Get(Json(r), "dbId")], cookie, 1)
      [] s.pc = "editResponse" ->
            IF r.net THEN create_or_update_release_catch(s, FetchFailed)
            ELSE IF ~Ok(r)
                 THEN create_or_update_release_catch(s,
                          <<"Edit operation failed for", s.args.fields[s.i].name, ":">>
                          \o StatusAndText(r))
            ELSE IF ~Parses(r) THEN create_or_update_release_catch(s, JsonSyntaxError)
            ELSE ReleaseLoop(s, cookie, s.i + 1)
      [] s.pc = "commitResponse" ->
            IF r.net THEN create_or_update_release_catch(s, FetchFailed)
            ELSE IF ~Ok(r)
                 THEN create_or_update_release_catch(s,
                          <<"Commit operation failed:">> \o StatusAndText(r))
            ELSE IF ~Parses(r) THEN create_or_update_release_catch(s, JsonSyntaxError)
            ELSE Return(s, Content(
                     <<IF Falsy(s.args.dbid) THEN "Release created successfully:"
                                             ELSE "Release updated successfully:">>
                     \o Stringify(Json(r))))

-----------------------------------------------------------------------------
(* update_work_item, server.js:1141-1262 *)

update_work_item_catch(s, message) ==
    Return(s, Content(<<"Error updating work item:">> \o message))

\* The Commit descriptor cut down to the shape of the Edit phase.
WorkItemCommitFieldMinimal(field) == [name |-> field.name, value |-> field.value]

\* lines 1219-1230: the Commit descriptor of one field.
WorkItemCommitField(field) ==
    [name |-> field.name,
     value |-> field.value,
     valueStatus |-> IF field.value # <<>> THEN "HAS_VALUE" ELSE "HAS_NO_VALUE",
     validationStatus |-> "_KNOWN_VALID",
     requiredness |-> "OPTIONAL",
     requirednessForUser |-> "OPTIONAL",
     type |-> IF Falsy(field.type) THEN "SHORT_STRING" ELSE field.type,
     valueAsList |-> IF field.value # <<>> THEN <<field.value>> ELSE <<>>,
     messageText |-> "",
     maxLength |-> IF field.type = "SHORT_STRING" THEN 254 ELSE 0]

\* fields.map(f => `- ${f.name}: ${f.value}`).join('\n')
UpdatedFields(fields) ==
    Join([k \in 1..Len(fields) |-> <<"-", fields[k].name, ":">> \o fields[k].value], <<"\n">>)

update_work_item(s, cookie, r) ==
    CASE s.pc = "start" ->
            Fetch(s, cookie,
                  Request("PATCH",
                          [EditUrl("WorkItem", s.args.dbid) EXCEPT !.actionName = "Modify"],
                          EmptyObjectBody),
                  "modifyResponse")
      [] s.pc = "modifyResponse" ->
            IF r.net THEN update_work_item_catch(s, FetchFailed)
            ELSE IF ~Ok(r)
                 THEN update_work_item_catch(s,
                          <<"Modify action failed:">> \o StatusTextAndText(r))
            ELSE Fetch(s, cookie,
                       Request("PATCH", EditUrl("WorkItem", s.args.dbid),
                               FieldsBody([k \in 1..Len(s.args.fields) |->
                                   MinimalField(s.args.fields[k].name, s.args.fields[k].value)])),
                       "editResponse")
      [] s.pc = "editResponse" ->
            IF r.net THEN update_work_item_catch(s, FetchFailed)
            ELSE IF ~Ok(r)
                 THEN update_work_item_catch(s,
                          <<"Edit operation failed:">> \o StatusTextAndText(r))
            ELSE IF ~Parses(r) THEN update_work_item_catch(s, JsonSyntaxError)
            ELSE Fetch(s, cookie,
                       Request("PATCH", CommitUrl("WorkItem", s.args.dbid),
                               CommitBody(s.args.dbid,
                                   [k \in 1..Len(s.args.fields) |->
                                       WorkItemCommitField(s.args.fields[k])])),
                       "commitResponse")
      [] s.pc = "commitResponse" ->
            IF r.net THEN update_work_item_catch(s, FetchFailed)
            ELSE IF Ok(r)
                 THEN IF ~Parses(r) THEN update_work_item_catch(s, JsonSyntaxError)
                      ELSE Return(s, Content(
                               <<"Work item", s.args.dbid, "updated successfully.",
                                 "\n", "\n", "Updated fields:", "\n">>
                               \o UpdatedFields(s.args.fields)))
            ELSE update_work_item_catch(s,
                     <<"Commit operation failed:">> \o StatusTextAndText(r))

-----------------------------------------------------------------------------
(* change_work_item_state, server.js:1422-1539 *)

\* The fixed delay before the Commit, in milliseconds (server.js:1484).
CommitDelayMs == 1000

\* A timer that does not wait.
DelayNone(ms) == [ev |-> "delay", ms |-> 0]
Delay(ms) == [ev |-> "delay", ms |-> ms]

\* The catch block without the status test of lines 1526-1528.
change_work_item_state_catchGeneric(s, message) ==
    Return(s, Content(<<"Error changing work item state:">> \o message))


\* lines 1520-1537
change_work_item_state_catch(s, message) ==
    IF Includes(message, <<"status", "400">>) \/ Includes(message, <<"status", "422">>)
    THEN Return(s, Content(
             <<"State transition error: The transition from current state to",
               "'", s.args.targetState, "'", "may not be valid for work item",
               s.args.dbid, ". Error:">> \o message))
    ELSE Return(s, Content(<<"Error changing work item state:">> \o message))

change_work_item_state(s, cookie, r) ==
    CASE s.pc = "start" ->
            Fetch(s, cookie,
                  Request("GET", [RecordUrl("WorkItem", s.args.dbid) EXCEPT !.useDbid = "true"],
                          NoBody),
                  "getCurrentResponse")
      [] s.pc = "getCurrentResponse" ->
            IF r.net THEN change_work_item_state_catch(s, FetchFailed)
            ELSE IF ~Ok(r)
                 THEN change_work_item_state_catch(s,
                          <<"Failed to get current work item data with", "status",
                            ToString(r.status), ":">> \o BodyText(r.body))
            ELSE IF ~Parses(r) THEN change_work_item_state_catch(s, JsonSyntaxError)
            ELSE Fetch(s, cookie,
                       Request("PATCH",
                               [EditUrl("WorkItem", s.args.dbid) EXCEPT
                                   !.actionName = s.args.targetState],
                               EmptyObjectBody),
                       "movementResponse")
      [] s.pc = "movementResponse" ->
            IF r.net THEN change_work_item_state_catch(s, FetchFailed)
            ELSE IF ~Ok(r)
                 THEN change_work_item_state_catch(s,
                          <<"Movement request failed with", "status",
                            ToString(r.status), ":">> \o BodyText(r.body))
            ELSE IF ~Parses(r) THEN change_work_item_state_catch(s, JsonSyntaxError)
            ELSE [s EXCEPT !.movementData = Json(r),
                           !.trace = Append(@, Delay(CommitDelayMs)),
                           !.pc = "setTimeout"]
      [] s.pc = "setTimeout" ->
            IF s.movementData.t = "null" THEN change_work_item_state_catch(s, NullTypeError)
            ELSE Fetch(s, cookie,
                       Request("PATCH", CommitUrl("WorkItem", s.args.dbid),
                               CommitBody(Get(s.movementData, "dbId"), <<>>)),
                       "commitResponse")
      [] s.pc = "commitResponse" ->
            IF r.net THEN change_work_item_state_catch(s, FetchFailed)
            ELSE IF ~Ok(r)
                 THEN change_work_item_state_catch(s,
                          <<"Commit request failed with", "status",
                            ToString(r.status), ":">> \o BodyText(r.body))
            ELSE IF ~Parses(r) THEN change_work_item_state_catch(s, JsonSyntaxError)
            ELSE Return(s, Content(
                     <<"Work item", s.args.dbid, "state successfully changed to",
                       "'", s.args.targetState, "'",
                       ". Both movement and commit operations completed successfully.">>))

-----------------------------------------------------------------------------
(* Arguments the tools are invoked with *)

Tools ==
    {"get_available_projects", "get_available_components", "get_sprints",
     "get_releases", "create_or_update_sprint", "create_or_update_release",
     "get_available_workitem_types", "create_work_item", "get_work_items",
     "delete_work_item", "update_work_item", "get_applications",
     "get_available_states", "change_work_item_state"}

Dbids == {"42"}
OptionalDbids == Dbids \cup {Undefined}

\* name, value and type of the fields handed to create_or_update_release and update_work_item.
NameField == [name |-> "Name", value |-> <<"R1">>, type |-> Undefined]
SprintsField ==
    [name |-> "Sprints", value |-> <<"Sprint1", ",", " ", "Sprint2">>, type |-> "REFERENCE_LIST"]
DescriptionField == [name |-> "Description", value |-> <<"text">>, type |-> "MULTILINE_STRING"]
OwnerField == [name |-> "Owner", value |-> <<>>, type |-> "SHORT_STRING"]
ReleaseDateField == [name |-> "ReleaseDate", value |-> <<"2025-01-01">>, type |-> "DATE_TIME"]
TitleField == [name |-> "Title", value |-> <<"T2">>, type |-> Undefined]

ReleaseFieldLists ==
    {<<>>, <<NameField>>, <<NameField, SprintsField>>, <<DescriptionField>>, <<ReleaseDateField>>}
WorkItemFieldLists == {<<DescriptionField>>, <<OwnerField, DescriptionField>>, <<TitleField>>}

ArgsFor(t) ==
    CASE t \in {"get_available_components", "get_available_workitem_types"} ->
            {[NoArgs EXCEPT !.projectId = "P1"]}
      [] t = "get_work_items" ->
            {[NoArgs EXCEPT !.projectId = "P1", !.owner = o, !.workitemType = w] :
                o \in {Undefined, "alice"}, w \in {Undefined, "Task"}}
      [] t = "create_work_item" ->
            {[NoArgs EXCEPT !.projectId = "P1", !.component = c, !.title = "T",
                            !.description = "D", !.workItemType = "Task"] :
                c \in {Undefined, "comp"}}
      [] t = "delete_work_item" -> {[NoArgs EXCEPT !.dbid = d] : d \in Dbids}
      [] t = "create_or_update_sprint" ->
            {[NoArgs EXCEPT !.dbid = d, !.name = n, !.startDate = dates[1], !.endDate = dates[2]] :
                d \in OptionalDbids, n \in {Undefined, "S1"},
                dates \in {<<Undefined, Undefined>>, <<"2025-01-01", Undefined>>,
                           <<"2025-01-01", "2025-01-15">>}}
      [] t = "create_or_update_release" ->
            {[NoArgs EXCEPT !.dbid = d, !.fields = f] :
                d \in OptionalDbids, f \in ReleaseFieldLists}
      [] t = "update_work_item" ->
            {[NoArgs EXCEPT !.dbid = d, !.fields = f] : d \in Dbids, f \in WorkItemFieldLists}
      [] t = "change_work_item_state" ->
            {[NoArgs EXCEPT !.dbid = d, !.targetState = ts] :
                d \in Dbids, ts \in {"Resolve"}}
      [] OTHER -> {NoArgs}

-----------------------------------------------------------------------------
(* The state machine *)

Init ==
    /\ globalCookies = ""
    /\ inv = [p \in Procs |-> Idle]
    /\ started = 0
    /\ bootstraps = 0
    /\ acqFailed = FALSE

\* The body of a handler from the end of its session prologue to its first fetch.
Begin(s0, cookie) ==
    LET s == [s0 EXCEPT !.pc = "start"] IN
    CASE
         s.tool = "get_available_projects" -> get_available_projects(s, cookie, NetworkError)
      [] s.tool = "get_available_components" -> get_available_components(s, cookie, NetworkError)
      [] s.tool = "get_sprints" -> get_sprints(s, cookie, NetworkError)
      [] s.tool = "get_releases" -> get_releases(s, cookie, NetworkError)
      [] s.tool = "create_or_update_sprint" -> create_or_update_sprint(s, cookie, NetworkError)
      [] s.tool = "create_or_update_release" -> create_or_update_release(s, cookie, NetworkError)
      [] s.tool = "get_available_workitem_types" -> get_available_workitem_types(s, cookie, NetworkError)
      [] s.tool = "create_work_item" -> create_work_item(s, cookie, NetworkError)
      [] s.tool = "get_work_items" -> get_work_items(s, cookie, NetworkError)
      [] s.tool = "delete_work_item" -> delete_work_item(s, cookie, NetworkError)
      [] s.tool = "update_work_item" -> update_work_item(s, cookie, NetworkError)
      [] s.tool = "get_applications" -> get_applications(s, cookie, NetworkError)
      [] s.tool = "get_available_states" -> get_available_states(s, cookie, NetworkError)
      [] s.tool = "change_work_item_state" -> change_work_item_state(s, cookie, NetworkError)

\* The MCP SDK calls the handler of tool t with arguments a.  The handler runs its session
\* prologue (`if (!globalCookies) ...`, lines 176-185 and their copies in every tool): with
\* an empty slot it issues the bootstrap GET and suspends, otherwise it goes on to its body.
Invoke(p, t, a) ==
    /\ inv[p].pc = "idle"
    /\ started' = started + 1
    /\ LET s == [Idle EXCEPT !.tool = t, !.args = a] IN
       IF NeedsSession(globalCookies)
       THEN /\ inv' = [inv EXCEPT ![p] = Fetch(s, Undefined, BootstrapRequest, "getCookiesFromServer")]
            /\ bootstraps' = bootstraps + 1
       ELSE /\ inv' = [inv EXCEPT ![p] = Begin(s, globalCookies)]
            /\ UNCHANGED bootstraps
    /\ UNCHANGED <<globalCookies, acqFailed>>

\* The bootstrap GET settled: getCookiesFromServer returns, the caller assigns what it
\* returned to globalCookies, and either returns { error } or goes on to its body.
CookieResponse(p, r) ==
    /\ inv[p].pc = "getCookiesFromServer"
    /\ LET cookies == getCookiesFromServer(r)
           s == ReceivedBootstrap(inv[p], r)
       IN  /\ globalCookies' = cookies
           /\ IF Falsy(cookies)
              THEN /\ inv' = [inv EXCEPT ![p] = Return(s, ErrorObject(<<"Failed to retrieve cookies.">>))]
                   /\ acqFailed' = TRUE
              ELSE /\ inv' = [inv EXCEPT ![p] = Begin(s, cookies)]
                   /\ UNCHANGED acqFailed
    /\ UNCHANGED <<started, bootstraps>>

\* Handler activation p of the given tool is suspended at an `await fetch(...)` of its body.
Awaiting(p, tool) ==
    /\ inv[p].tool = tool
    /\ inv[p].pc \notin {"idle", "returned", "getCookiesFromServer", "setTimeout"}

GetAvailableProjects(p, r) ==
    /\ Awaiting(p, "get_available_projects")
    /\ inv' = [inv EXCEPT ![p] = get_available_projects(Received(@, r), globalCookies, r)]
    /\ UNCHANGED <<globalCookies, started, bootstraps, acqFailed>>

GetAvailableComponents(p, r) ==
    /\ Awaiting(p, "get_available_components")
    /\ inv' = [inv EXCEPT ![p] = get_available_components(Received(@, r), globalCookies, r)]
    /\ UNCHANGED <<globalCookies, started, bootstraps, acqFailed>>

GetSprints(p, r) ==
    /\ Awaiting(p, "get_sprints")
    /\ inv' = [inv EXCEPT ![p] = get_sprints(Received(@, r), globalCookies, r)]
    /\ UNCHANGED <<globalCookies, started, bootstraps, acqFailed>>

GetReleases(p, r) ==
    /\ Awaiting(p, "get_releases")
    /\ inv' = [inv EXCEPT ![p] = get_releases(Received(@, r), globalCookies, r)]
    /\ UNCHANGED <<globalCookies, started, bootstraps, acqFailed>>

CreateOrUpdateSprint(p, r) ==
    /\ Awaiting(p, "create_or_update_sprint")
    /\ inv' = [inv EXCEPT ![p] = create_or_update_sprint(Received(@, r), globalCookies, r)]
    /\ UNCHANGED <<globalCookies, started, bootstraps, acqFailed>>

CreateOrUpdateRelease(p, r) ==
    /\ Awaiting(p, "create_or_update_release")
    /\ inv' = [inv EXCEPT ![p] = create_or_update_release(Received(@, r), globalCookies, r)]
    /\ UNCHANGED <<globalCookies, started, bootstraps, acqFailed>>

GetAvailableWorkitemTypes(p, r) ==
    /\ Awaiting(p, "get_available_workitem_types")
    /\ inv' = [inv EXCEPT ![p] = get_available_workitem_types(Received(@, r), globalCookies, r)]
    /\ UNCHANGED <<globalCookies, started, bootstraps, acqFailed>>

CreateWorkItem(p, r) ==
    /\ Awaiting(p, "create_work_item")
    /\ inv' = [inv EXCEPT ![p] = create_work_item(Received(@, r), globalCookies, r)]
    /\ UNCHANGED <<globalCookies, started, bootstraps, acqFailed>>

GetWorkItems(p, r) ==
    /\ Awaiting(p, "get_work_items")
    /\ inv' = [inv EXCEPT ![p] = get_work_items(Received(@, r), globalCookies, r)]
    /\ UNCHANGED <<globalCookies, started, bootstraps, acqFailed>>

\* delete_work_item with a plausible "fix": drop the session when the request fails.
DeleteWorkItemDroppingSession(p, r) ==
    /\ Awaiting(p, "delete_work_item")
    /\ inv' = [inv EXCEPT ![p] = delete_work_item(Received(@, r), globalCookies, r)]
    /\ globalCookies' = IF r.net \/ ~Ok(r) THEN "" ELSE globalCookies
    /\ UNCHANGED <<started, bootstraps, acqFailed>>

DeleteWorkItem(p, r) ==
    /\ Awaiting(p, "delete_work_item")
    /\ inv' = [inv EXCEPT ![p] = delete_work_item(Received(@, r), globalCookies, r)]
    /\ UNCHANGED <<globalCookies, started, bootstraps, acqFailed>>

UpdateWorkItem(p, r) ==
    /\ Awaiting(p, "update_work_item")
    /\ inv' = [inv EXCEPT ![p] = update_work_item(Received(@, r), globalCookies, r)]
    /\ UNCHANGED <<globalCookies, started, bootstraps, acqFailed>>

GetApplications(p, r) ==
    /\ Awaiting(p, "get_applications")
    /\ inv' = [inv EXCEPT ![p] = get_applications(Received(@, r), globalCookies, r)]
    /\ UNCHANGED <<globalCookies, started, bootstraps, acqFailed>>

GetAvailableStates(p, r) ==
    /\ Awaiting(p, "get_available_states")
    /\ inv' = [inv EXCEPT ![p] = get_available_states(Received(@, r), globalCookies, r)]
    /\ UNCHANGED <<globalCookies, started, bootstraps, acqFailed>>

ChangeWorkItemState(p, r) ==
    /\ Awaiting(p, "change_work_item_state")
    /\ inv' = [inv EXCEPT ![p] = change_work_item_state(Received(@, r), globalCookies, r)]
    /\ UNCHANGED <<globalCookies, started, bootstraps, acqFailed>>

\* The 1-second timer of change_work_item_state fires and the handler sends the Commit.
TimerFires(p) ==
    /\ inv[p].pc = "setTimeout"
    /\ inv' = [inv EXCEPT ![p] = change_work_item_state(@, globalCookies, NetworkError)]
    /\ UNCHANGED <<globalCookies, started, bootstraps, acqFailed>>

\* The MCP SDK hands the handler's return value to the caller; the activation is over.
Deliver(p) ==
    /\ inv[p].pc = "returned"
    /\ inv' = [inv EXCEPT ![p] = Idle]
    /\ UNCHANGED <<globalCookies, started, bootstraps, acqFailed>>

\* One step of handler activation p.
Step(p) ==
    \/ Deliver(p)
    \/ started < MaxInvocations /\ \E t \in Tools : \E a \in ArgsFor(t) : Invoke(p, t, a)
    \/ \E r \in BootstrapResponses : CookieResponse(p, r)
    \/ TimerFires(p)
    \/ \E r \in Responses :
        \/ GetAvailableProjects(p, r)
        \/ GetAvailableComponents(p, r)
        \/ GetSprints(p, r)
        \/ GetReleases(p, r)
        \/ CreateOrUpdateSprint(p, r)
        \/ CreateOrUpdateRelease(p, r)
        \/ GetAvailableWorkitemTypes(p, r)
        \/ CreateWorkItem(p, r)
        \/ GetWorkItems(p, r)
        \/ DeleteWorkItem(p, r)
        \/ UpdateWorkItem(p, r)
        \/ GetApplications(p, r)
        \/ GetAvailableStates(p, r)
        \/ ChangeWorkItemState(p, r)

\* Tool invocations run one after another: a single handler activation at a time.
Next == Step("p1")

Spec == Init /\ [][Next]_vars

-----------------------------------------------------------------------------
(* Concurrent invocations.  The host runtime starts a handler for every request it reads,
   so several activations may be suspended at an await at the same time; their
   resumptions interleave in any order.  To keep the product of two activations small,
   this specification runs four of the tools against fewer server answers. *)

ConcTools ==
    {"get_available_projects", "create_or_update_release", "update_work_item",
     "change_work_item_state"}

ConcArgsFor(t) ==
    CASE t = "create_or_update_release" ->
            {[NoArgs EXCEPT !.dbid = d, !.fields = <<NameField>>] : d \in OptionalDbids}
      [] t = "update_work_item" ->
            {[NoArgs EXCEPT !.dbid = d, !.fields = <<DescriptionField>>] : d \in Dbids}
      [] OTHER -> ArgsFor(t)

ConcResponses ==
    { NetworkError,
      HttpResponse(500, TextBody(<<"denied">>)),
      HttpResponse(200, JsonBody(JObject([result_set_id |-> "rs1"]))),
      HttpResponse(200, JsonBody(JObject([rows |-> <<RowAlpha, RowBeta>>]))),
      HttpResponse(200, JsonBody(JObject([dbId |-> "77"]))) }

ConcBootstrapResponses ==
    {[net |-> FALSE, status |-> st, setCookie |-> c] :
        st \in {200, 500}, c \in Cookies \cup {Null}}

StepConc(p) ==
    \/ Deliver(p)
    \/ started < MaxConcInvocations /\ \E t \in ConcTools : \E a \in ConcArgsFor(t) : Invoke(p, t, a)
    \/ \E r \in ConcBootstrapResponses : CookieResponse(p, r)
    \/ TimerFires(p)
    \/ \E r \in ConcResponses :
        \/ GetAvailableProjects(p, r)
        \/ CreateOrUpdateRelease(p, r)
        \/ UpdateWorkItem(p, r)
        \/ ChangeWorkItemState(p, r)

NextConc == \E p \in Procs : StepConc(p)

SpecConc == Init /\ [][NextConc]_vars

-----------------------------------------------------------------------------
(* Vocabulary of the properties *)

Returned(p) == inv[p].pc = "returned"

\* The request and response events of a trace, and the requests that carry credentials.
IsRequest(e) == e.ev = "request"
IsResponse(e) == e.ev = "response"
IsAuthenticated(e) == e.ev = "request" /\ e.auth
IsBootstrap(e) == e.ev = "request" /\ e.url.path = <<"analytics", "serverurl">>
OkResponse(e) == e.ev = "response" /\ ~e.net /\ e.status \in 200..299
FailedResponse(e) == e.ev = "response" /\ ~OkResponse(e)

Requests(trace) == SelectSeq(trace, IsRequest)
AuthenticatedRequests(trace) == SelectSeq(trace, IsAuthenticated)

-----------------------------------------------------------------------------
(* C1: Every tool invocation, whatever its outcome, returns a result whose content holds
   a text item; none returns a result without content or returns nothing at all. *)
C1_EveryResultHasTextContent ==
    \A p \in Procs : Returned(p) => inv[p].result.kind = "content"

-----------------------------------------------------------------------------
(* C2: Session acquisition is idempotent.  Over any sequence of tool invocations run one
   after another with no acquisition failure, exactly one bootstrap GET is issued: the
   first invocation acquires the cookie, and every later invocation issues no bootstrap
   GET and sends the cached cookie with each of its requests. *)
C2_OneBootstrapWithoutFailure ==
    (~acqFailed /\ started >= 1) =>
        /\ bootstraps = 1
        /\ started >= 2 =>
              \A k \in 1..Len(inv["p1"].trace) :
                  IsRequest(inv["p1"].trace[k]) =>
                      /\ ~IsBootstrap(inv["p1"].trace[k])
                      /\ inv["p1"].trace[k].cookie = globalCookies
                      /\ globalCookies \in Cookies

\* A third invocation in a row has completed an authenticated request on the cookie the
\* first one acquired.
C2_Witness ==
    /\ started = 3 /\ ~acqFailed /\ bootstraps = 1
    /\ Returned("p1")
    /\ AuthenticatedRequests(inv["p1"].trace) # <<>>

-----------------------------------------------------------------------------
(* C3: Once the session slot holds a non-empty cookie, no step of any tool invocation, in
   any interleaving of concurrent invocations, changes or clears it. *)
C3_SessionNeverChanges ==
    [][~Falsy(globalCookies) => globalCookies' = globalCookies]_vars

-----------------------------------------------------------------------------
(* C4: When session acquisition fails (bootstrap response not OK, no set-cookie header, or
   a network error), the invocation issues no authenticated upstream request and returns
   an error to the caller, and the process keeps serving: the result can be delivered and
   the next invocation can start. *)

\* The trace holds the answer to a bootstrap GET that yields no cookie.
AcquisitionFailedIn(trace) ==
    /\ Len(trace) >= 2
    /\ IsBootstrap(trace[1])
    /\ \/ trace[2].net
       \/ trace[2].status \notin 200..299
       \/ trace[2].setCookie \in {Null, ""}

C4_FailedAcquisitionEndsInvocation ==
    \A p \in Procs :
        AcquisitionFailedIn(inv[p].trace) =>
            /\ Returned(p)
            /\ Len(inv[p].trace) = 2
            /\ AuthenticatedRequests(inv[p].trace) = <<>>
            /\ inv[p].result = ErrorObject(<<"Failed to retrieve cookies.">>)
            /\ ENABLED Deliver(p)

\* An invocation has ended on a failed acquisition after an earlier one was served.
C4_Witness ==
    /\ AcquisitionFailedIn(inv["p1"].trace)
    /\ Returned("p1")
    /\ started >= 2

-----------------------------------------------------------------------------
(* C5: A non-OK response or failure of an authenticated upstream request leaves the
   session slot unchanged: the cached cookie is kept while the result is delivered, and
   an invocation that starts on a cached cookie issues no bootstrap call and sends that
   cookie. *)

\* Activation p receives, in this step, a failed answer to an authenticated request.
AuthenticatedFailureStep(p) ==
    /\ inv[p].pc \notin {"idle", "returned", "getCookiesFromServer", "setTimeout"}
    /\ Len(inv'[p].trace) > Len(inv[p].trace)
    /\ FailedResponse(inv'[p].trace[Len(inv[p].trace) + 1])

EndedOnFailedRequest(p) ==
    /\ Returned(p)
    /\ inv[p].trace # <<>>
    /\ FailedResponse(inv[p].trace[Len(inv[p].trace)])
    /\ AuthenticatedRequests(inv[p].trace) # <<>>

C5_FailedRequestKeepsSession ==
    [][\A p \in Procs :
          /\ AuthenticatedFailureStep(p) => globalCookies' = globalCookies
          /\ (EndedOnFailedRequest(p) /\ inv'[p].pc = "idle") => globalCookies' = globalCookies
          /\ (inv[p].pc = "idle" /\ inv'[p].pc # "idle" /\ ~Falsy(globalCookies)) =>
                /\ bootstraps' = bootstraps
                /\ \A k \in 1..Len(inv'[p].trace) :
                      /\ IsAuthenticated(inv'[p].trace[k])
                      /\ inv'[p].trace[k].cookie = globalCookies
      ]_vars

\* A later invocation, started on the cached cookie, has had its request fail, and the
\* slot still holds the cookie that request carried.
C5_Witness ==
    /\ EndedOnFailedRequest("p1")
    /\ started >= 2 /\ bootstraps = 1
    /\ globalCookies \in Cookies
    /\ inv["p1"].trace[1].cookie = globalCookies

-----------------------------------------------------------------------------
(* C6: In every mutation flow (create_or_update_sprint, create_or_update_release,
   update_work_item, change_work_item_state) the Commit request is sent only after every
   earlier authenticated request of the invocation was answered with HTTP OK; a failed
   answer is the last event of the invocation, which has returned an error text. *)

MutationTools ==
    {"create_or_update_sprint", "create_or_update_release",
     "update_work_item", "change_work_item_state"}

IsCommit(e) == IsRequest(e) /\ e.url.operation = "Commit"

ErrorHeads ==
    {"Error updating sprint:", "Error creating sprint:",
     "Error updating release:", "Error creating release:",
     "Error updating work item:", "Error changing work item state:",
     "State transition error: The transition from current state to"}

C6_CommitOnlyAfterOk ==
    \A p \in Procs :
        inv[p].tool \in MutationTools =>
            LET t == inv[p].trace IN
            /\ \A k \in 1..Len(t) :
                  IsCommit(t[k]) => \A j \in 1..(k - 1) : IsResponse(t[j]) => OkResponse(t[j])
            /\ \A k \in 2..Len(t) :
                  (FailedResponse(t[k]) /\ IsAuthenticated(t[k - 1])) =>
                      /\ k = Len(t)
                      /\ Returned(p)
                      /\ inv[p].result.kind = "content"
                      /\ inv[p].result.text[1] \in ErrorHeads

\* A release flow whose Edit requests were answered OK has sent its Commit, the Commit was
\* refused, and the invocation has returned.
C6_Witness ==
    /\ inv["p1"].tool = "create_or_update_release"
    /\ Returned("p1")
    /\ \E k \in 1..Len(inv["p1"].trace) :
          /\ IsCommit(inv["p1"].trace[k])
          /\ k > 4
    /\ FailedResponse(inv["p1"].trace[Len(inv["p1"].trace)])

-----------------------------------------------------------------------------
(* C7: With no dbid supplied, create_or_update_sprint and create_or_update_release send
   exactly one POST .../records/{Sprint|Release}?operation=Edit with an empty field list,
   and it is the first authenticated request, before any Edit or Commit request. *)

EntityOf(tool) == IF tool = "create_or_update_sprint" THEN "Sprint" ELSE "Release"

IsEmptyCreate(e, entityType) ==
    /\ e.method = "POST"
    /\ e.url.path = <<"records", entityType>>
    /\ e.url.operation = "Edit"
    /\ e.body.kind = "fields"
    /\ e.body.fields = <<>>

C7_CreateFirst ==
    \A p \in Procs :
        (/\ inv[p].tool \in {"create_or_update_sprint", "create_or_update_release"}
         /\ inv[p].args.dbid \in {Undefined, Null, ""}) =>
            LET reqs == AuthenticatedRequests(inv[p].trace) IN
            \A k \in 1..Len(reqs) :
                /\ k = 1 => IsEmptyCreate(reqs[k], EntityOf(inv[p].tool))
                /\ k > 1 => reqs[k].method = "PATCH"

\* A sprint has been created: the POST, the Edit and the Commit were all sent.
C7_Witness ==
    /\ inv["p1"].tool = "create_or_update_sprint"
    /\ inv["p1"].args.dbid = Undefined
    /\ Returned("p1")
    /\ \E k \in 1..Len(inv["p1"].trace) : IsCommit(inv["p1"].trace[k])
    /\ inv["p1"].result.text[1] = "Sprint created successfully:"

-----------------------------------------------------------------------------
(* C8: A successful change_work_item_state sends exactly 3 authenticated HTTP calls, in
   this order: GET of the work item, PATCH of the action with the body {}, PATCH Commit
   with an empty fields list; the 1000 ms delay lies strictly between the answer to call 2
   and the sending of call 3. An invocation that starts on an empty session slot sends one
   more call first, the bootstrap GET: 4 HTTP calls in all. *)

StateChanged(p) ==
    /\ inv[p].tool = "change_work_item_state"
    /\ Returned(p)
    /\ inv[p].result.kind = "content"
    /\ inv[p].result.text[1] = "Work item"

\* The three calls of the flow, in order, in the sequence of requests reqs.
ThreeCalls(reqs, dbid, targetState) ==
    /\ Len(reqs) = 3
    /\ reqs[1].method = "GET"
    /\ reqs[1].url.path = <<"records", "WorkItem", dbid>>
    /\ reqs[1].url.operation = Undefined
    /\ reqs[2].method = "PATCH"
    /\ reqs[2].url.path = <<"records", "WorkItem", dbid>>
    /\ reqs[2].url.operation = "Edit"
    /\ reqs[2].url.actionName = targetState
    /\ reqs[2].body = [kind |-> "{}"]
    /\ reqs[3].method = "PATCH"
    /\ reqs[3].url.path = <<"records", "WorkItem", dbid>>
    /\ reqs[3].url.operation = "Commit"
    /\ reqs[3].body.kind = "fields"
    /\ reqs[3].body.fields = <<>>

\* The trace ends: request 2, its answer, the 1000 ms delay, request 3, its answer; and
\* holds no other delay.
DelayBetweenCalls2And3(t) ==
    LET n == Len(t) IN
    /\ n >= 6
    /\ IsRequest(t[n - 4]) /\ t[n - 4].url.operation = "Edit"
    /\ OkResponse(t[n - 3])
    /\ t[n - 2] = [ev |-> "delay", ms |-> 1000]
    /\ IsCommit(t[n - 1])
    /\ OkResponse(t[n])
    /\ \A k \in 1..n : t[k].ev = "delay" => k = n - 2

\* C8 as stated: every successful invocation sends exactly 3 HTTP calls.
C8_ExactlyThreeCalls ==
    \A p \in Procs :
        StateChanged(p) =>
            /\ ThreeCalls(Requests(inv[p].trace), inv[p].args.dbid, inv[p].args.targetState)
            /\ DelayBetweenCalls2And3(inv[p].trace)

\* C8 for both starting points.
C8_ThreeCallsAfterSession ==
    \A p \in Procs :
        StateChanged(p) =>
            LET t == inv[p].trace IN
            /\ ThreeCalls(AuthenticatedRequests(t), inv[p].args.dbid, inv[p].args.targetState)
            /\ DelayBetweenCalls2And3(t)
            /\ \/ /\ Len(Requests(t)) = 3
                  /\ ~IsBootstrap(t[1])
               \/ /\ Len(Requests(t)) = 4
                  /\ IsBootstrap(t[1])
                  /\ t[1].method = "GET"
            /\ started = 1 => IsBootstrap(t[1])
            /\ (started > 1 /\ ~acqFailed) => ~IsBootstrap(t[1])

\* A state change has succeeded on a cached session.
C8_Witness ==
    /\ StateChanged("p1")
    /\ started > 1
    /\ Len(Requests(inv["p1"].trace)) = 3

-----------------------------------------------------------------------------
(* C9: change_work_item_state renders a failure as the invalid-state-transition message
   only when some HTTP step of the invocation was answered with status 400 or 422. *)

TransitionErrorHead == "State transition error: The transition from current state to"

C9_TransitionMessageOnlyOn400Or422 ==
    \A p \in Procs :
        (/\ inv[p].tool = "change_work_item_state"
         /\ Returned(p)
         /\ inv[p].result.kind = "content"
         /\ inv[p].result.text[1] = TransitionErrorHead) =>
            \E k \in 1..Len(inv[p].trace) :
                /\ IsResponse(inv[p].trace[k])
                /\ ~inv[p].trace[k].net
                /\ inv[p].trace[k].status \in {400, 422}

-----------------------------------------------------------------------------
(* C10: When the action step or the Commit step of change_work_item_state is answered with
   400 or 422, the returned text is the invalid-transition message, naming the requested
   target state and the work item's dbid, and not the generic error. *)

\* The invocation ended on a 400/422 answer to one of its PATCH requests.
RefusedPatch(p) ==
    LET t == inv[p].trace IN
    /\ inv[p].tool = "change_work_item_state"
    /\ Len(t) >= 2
    /\ IsResponse(t[Len(t)])
    /\ ~t[Len(t)].net
    /\ t[Len(t)].status \in {400, 422}
    /\ IsRequest(t[Len(t) - 1])
    /\ t[Len(t) - 1].method = "PATCH"

C10_RefusedTransitionMessage ==
    \A p \in Procs :
        RefusedPatch(p) =>
            /\ Returned(p)
            /\ inv[p].result.kind = "content"
            /\ Len(inv[p].result.text) >= 7
            /\ SubSeq(inv[p].result.text, 1, 7) =
                   <<"State transition error: The transition from current state to",
                     "'", inv[p].args.targetState, "'", "may not be valid for work item",
                     inv[p].args.dbid, ". Error:">>
            /\ inv[p].args.targetState = "Resolve"
            /\ inv[p].args.dbid = "42"

\* The Commit of a state change was answered with 422.
C10_Witness ==
    /\ RefusedPatch("p1")
    /\ Returned("p1")
    /\ IsCommit(inv["p1"].trace[Len(inv["p1"].trace) - 1])
    /\ inv["p1"].trace[Len(inv["p1"].trace)].status = 422

-----------------------------------------------------------------------------
(* C11: No HTTP request is sent twice within an invocation, and an invocation in which an
   authenticated request failed (network error or non-2xx response) has returned an error
   text, never a success text; for every tool. *)

\* First part of the text every catch block and failure branch of the tools returns.
ToolErrorHeads ==
    ErrorHeads \cup
    {"Error retrieving projects:", "Error retrieving sprints:", "Error retrieving releases:",
     "Error retrieving work item types:", "Error creating work item:",
     "Error retrieving work items:", "Error deleting work item:",
     "Error retrieving applications:", "Error retrieving state transition matrix:"}

ErrorOutcome(result) ==
    /\ result.kind = "content"
    /\ result.text # <<>>
    /\ result.text[1] \in ToolErrorHeads

C11_FailureIsTerminalError ==
    \A p \in Procs :
        LET t == inv[p].trace IN
        /\ \A j, k \in 1..Len(t) :
              (j < k /\ IsAuthenticated(t[j]) /\ IsAuthenticated(t[k])) => t[j] # t[k]
        /\ (Returned(p) /\ \E k \in 2..Len(t) :
                               FailedResponse(t[k]) /\ IsAuthenticated(t[k - 1]))
               => ErrorOutcome(inv[p].result)

-----------------------------------------------------------------------------
(* C12: For every query tool, when the answer to the query POST carries no result_set_id,
   the invocation sends no result-page GET and returns an error text, not a success
   text. *)

QueryTools ==
    {"get_available_projects", "get_available_components", "get_sprints", "get_releases",
     "get_available_workitem_types", "get_work_items"}

\* The handler of activation s resumed with response r.
Handle(s, cookie, r) ==
    CASE s.tool = "get_available_projects" -> get_available_projects(s, cookie, r)
      [] s.tool = "get_available_components" -> get_available_components(s, cookie, r)
      [] s.tool = "get_sprints" -> get_sprints(s, cookie, r)
      [] s.tool = "get_releases" -> get_releases(s, cookie, r)
      [] s.tool = "create_or_update_sprint" -> create_or_update_sprint(s, cookie, r)
      [] s.tool = "create_or_update_release" -> create_or_update_release(s, cookie, r)
      [] s.tool = "get_available_workitem_types" -> get_available_workitem_types(s, cookie, r)
      [] s.tool = "create_work_item" -> create_work_item(s, cookie, r)
      [] s.tool = "get_work_items" -> get_work_items(s, cookie, r)
      [] s.tool = "delete_work_item" -> delete_work_item(s, cookie, r)
      [] s.tool = "update_work_item" -> update_work_item(s, cookie, r)
      [] s.tool = "get_applications" -> get_applications(s, cookie, r)
      [] s.tool = "get_available_states" -> get_available_states(s, cookie, r)
      [] s.tool = "change_work_item_state" -> change_work_item_state(s, cookie, r)

\* Activation p as it stands once the request it awaits is answered with r.
After(p, r) == Handle(Received(inv[p], r), globalCookies, r)

\* A JSON answer without a result_set_id member.
NoResultSetId(r) ==
    /\ ~r.net
    /\ r.body.kind = "json"
    /\ \/ r.body.json.t # "object"
       \/ "result_set_id" \notin DOMAIN r.body.json.m

C12_MissingResultSetIdIsError ==
    \A p \in Procs :
        (inv[p].tool \in QueryTools /\ inv[p].pc = "queryResponse") =>
            \A r \in Responses :
                NoResultSetId(r) =>
                    /\ After(p, r).pc = "returned"
                    /\ Requests(After(p, r).trace) = Requests(inv[p].trace)
                    /\ ErrorOutcome(After(p, r).result)

-----------------------------------------------------------------------------
(* C13: Every query tool sends exactly one POST to the query endpoint and then at most one
   GET, of the result set the POST returned, asking for page 1 (pageNumber=1); it never
   fetches a further page. *)

C13_OnePostThenPageOne ==
    \A p \in Procs :
        inv[p].tool \in QueryTools =>
            LET reqs == AuthenticatedRequests(inv[p].trace) IN
            /\ Len(reqs) <= 2
            /\ Len(reqs) >= 1 =>
                  /\ reqs[1].method = "POST"
                  /\ reqs[1].url.path = <<"query">>
            /\ Len(reqs) = 2 =>
                  /\ reqs[2].method = "GET"
                  /\ Len(reqs[2].url.path) = 2
                  /\ reqs[2].url.path[1] = "query"
                  /\ reqs[2].url.path[2] = "rs1"
                  /\ reqs[2].url.pageNumber = "1"

-----------------------------------------------------------------------------
(* C14: For get_available_components a result page with zero rows yields a successful
   result with an empty list, not an error: the page {rows: []} gives the text
   'Components retrieved: []', and the empty page [] gives a 'Components retrieved:' text
   as well. *)

\* Result pages without any row.
EmptyRowsPage == HttpResponse(200, JsonBody(JObject([rows |-> <<>>])))
EmptyArrayPage == HttpResponse(200, JsonBody(JArray(<<>>)))

AwaitingComponentsPage(p) ==
    inv[p].tool = "get_available_components" /\ inv[p].pc = "componentsResponse"

C14_ZeroRowsIsSuccess ==
    \A p \in Procs :
        AwaitingComponentsPage(p) =>
            /\ After(p, EmptyRowsPage).pc = "returned"
            /\ After(p, EmptyRowsPage).result =
                   [kind |-> "content", text |-> <<"Components retrieved:", "[", "]">>]
            /\ After(p, EmptyArrayPage).pc = "returned"
            /\ After(p, EmptyArrayPage).result.kind = "content"
            /\ After(p, EmptyArrayPage).result.text[1] = "Components retrieved:"

\* The page {rows: []} has been received and the empty list returned.
C14_Witness ==
    /\ inv["p1"].tool = "get_available_components"
    /\ Returned("p1")
    /\ Len(AuthenticatedRequests(inv["p1"].trace)) = 2
    /\ inv["p1"].result = [kind |-> "content", text |-> <<"Components retrieved:", "[", "]">>]

-----------------------------------------------------------------------------
(* C15: get_available_components lets its caller tell 'no rows' from a failure: the result
   returned for a page with zero rows differs from the result returned when the page has
   no rows member, when result_set_id is missing, and when a request throws. *)

\* What activation p returns for a result page without rows.
ZeroRowResults(p) ==
    {Handle(Received([inv[p] EXCEPT !.pc = "componentsResponse"], z), globalCookies, z).result :
        z \in {EmptyRowsPage, EmptyArrayPage}}

\* A page that is a JSON object without a rows member.
NoRowsMember(r) ==
    /\ ~r.net
    /\ r.body.kind = "json"
    /\ r.body.json.t = "object"
    /\ "rows" \notin DOMAIN r.body.json.m

C15_NoRowsDiffersFromFailure ==
    \A p \in Procs :
        inv[p].tool = "get_available_components" =>
            /\ inv[p].pc = "queryResponse" =>
                  \A r \in Responses :
                      (r.net \/ NoResultSetId(r)) => After(p, r).result \notin ZeroRowResults(p)
            /\ inv[p].pc = "componentsResponse" =>
                  \A r \in Responses :
                      (r.net \/ NoRowsMember(r)) => After(p, r).result \notin ZeroRowResults(p)

-----------------------------------------------------------------------------
(* C16: Every field descriptor sent in a Commit payload, by create_or_update_sprint,
   create_or_update_release, update_work_item and change_work_item_state and for every
   input, carries all ten metadata keys. *)

MetadataKeys ==
    {"name", "value", "valueAsList", "type", "valueStatus", "validationStatus",
     "requiredness", "requirednessForUser", "messageText", "maxLength"}

\* The field descriptors of all Commit requests that activation p has sent.
CommitDescriptors(p) ==
    UNION {{inv[p].trace[k].body.fields[i] : i \in 1..Len(inv[p].trace[k].body.fields)} :
              k \in {n \in 1..Len(inv[p].trace) :
                        /\ IsCommit(inv[p].trace[n])
                        /\ inv[p].trace[n].body.kind = "fields"}}

C16_CommitDescriptorsAreFull ==
    \A p \in Procs : \A f \in CommitDescriptors(p) : DOMAIN f = MetadataKeys

\* A work item update has sent a Commit with two descriptors.
C16_Witness ==
    /\ inv["p1"].tool = "update_work_item"
    /\ Cardinality(CommitDescriptors("p1")) = 2

-----------------------------------------------------------------------------
(* C17: For Sprint, Release and WorkItem and every (name, value, type) triple, the Commit
   descriptor follows the encoding table: SHORT_STRING and an unspecified type give the raw
   value, [value] and maxLength 254; MULTILINE_STRING the raw value, [value] and 0;
   DATE_TIME '<date> 00:00:00', [same] and 0; REFERENCE_LIST the trimmed comma-split list,
   its elements joined by a newline as value, and 0. *)

TableList(value, type) ==
    CASE type = "REFERENCE_LIST" -> [k \in 1..Len(Split(value, ",")) |-> Trim(Split(value, ",")[k])]
      [] type = "DATE_TIME" -> <<value \o <<" ", "00:00:00">>>>
      [] OTHER -> <<value>>

TableValue(value, type) ==
    CASE type = "REFERENCE_LIST" -> Join(TableList(value, type), <<"\n">>)
      [] type = "DATE_TIME" -> value \o <<" ", "00:00:00">>
      [] OTHER -> value

TableMaxLength(type) ==
    IF type \in {"MULTILINE_STRING", "DATE_TIME", "REFERENCE_LIST"} THEN 0 ELSE 254

FollowsTable(f, value, type) ==
    /\ f.value = TableValue(value, type)
    /\ f.valueAsList = TableList(value, type)
    /\ f.maxLength = TableMaxLength(type)

\* The Commit bodies activation p has sent.
CommitBodies(p) ==
    {inv[p].trace[k].body : k \in {n \in 1..Len(inv[p].trace) :
                                      /\ IsCommit(inv[p].trace[n])
                                      /\ inv[p].trace[n].body.kind = "fields"}}

C17_EncodingTable ==
    \A p \in Procs : \A b \in CommitBodies(p) :
        /\ inv[p].tool \in {"create_or_update_release", "update_work_item"} =>
              /\ Len(b.fields) = Len(inv[p].args.fields)
              /\ \A i \in 1..Len(b.fields) :
                    FollowsTable(b.fields[i], inv[p].args.fields[i].value,
                                 inv[p].args.fields[i].type)
        /\ inv[p].tool = "create_or_update_sprint" =>
              \A i \in 1..Len(b.fields) :
                  /\ b.fields[i].name = "Name" =>
                        FollowsTable(b.fields[i], <<inv[p].args.name>>, "SHORT_STRING")
                  /\ b.fields[i].name = "StartDate" =>
                        FollowsTable(b.fields[i], <<inv[p].args.startDate>>, "DATE_TIME")
                  /\ b.fields[i].name = "EndDate" =>
                        FollowsTable(b.fields[i], <<inv[p].args.endDate>>, "DATE_TIME")

-----------------------------------------------------------------------------
(* C18: In create_or_update_release a REFERENCE_LIST field with a comma-separated input
   gives, in the Commit descriptor, valueAsList equal to the input split on commas with
   each element trimmed, and value equal to those elements joined by a newline: the input
   'Sprint1, Sprint2' gives ['Sprint1', 'Sprint2'] and 'Sprint1\nSprint2'. *)

C18_ReferenceListEncoding ==
    \A p \in Procs : \A b \in CommitBodies(p) :
        inv[p].tool = "create_or_update_release" =>
            \A i \in 1..Len(inv[p].args.fields) :
                inv[p].args.fields[i].type = "REFERENCE_LIST" =>
                    /\ i <= Len(b.fields)
                    /\ b.fields[i].name = inv[p].args.fields[i].name
                    /\ \A k \in 1..Len(b.fields[i].valueAsList) :
                          /\ "," \notin {b.fields[i].valueAsList[k][n] :
                                            n \in 1..Len(b.fields[i].valueAsList[k])}
                          /\ b.fields[i].valueAsList[k] # <<>> =>
                                /\ b.fields[i].valueAsList[k][1] # " "
                                /\ b.fields[i].valueAsList[k][Len(b.fields[i].valueAsList[k])] # " "
                    /\ inv[p].args.fields[i].value = <<"Sprint1", ",", " ", "Sprint2">> =>
                          /\ b.fields[i].valueAsList = << <<"Sprint1">>, <<"Sprint2">> >>
                          /\ b.fields[i].value = <<"Sprint1", "\n", "Sprint2">>

\* A release Commit carrying the Sprints list has been sent.
C18_Witness ==
    /\ inv["p1"].tool = "create_or_update_release"
    /\ \E b \in CommitBodies("p1") :
          \E i \in 1..Len(b.fields) :
              /\ b.fields[i].type = "REFERENCE_LIST"
              /\ inv["p1"].args.fields[i].value = <<"Sprint1", ",", " ", "Sprint2">>

-----------------------------------------------------------------------------
(* C19: In every Commit payload requiredness and requirednessForUser are MANDATORY for the
   entity's designated required field only (Name, for Sprint and Release) and OPTIONAL for
   every other field. *)

IsRequiredField(tool, name) ==
    tool \in {"create_or_update_sprint", "create_or_update_release"} /\ name = "Name"

C19_MandatoryOnlyForName ==
    \A p \in Procs : \A f \in CommitDescriptors(p) :
        LET expected == IF IsRequiredField(inv[p].tool, f.name) THEN "MANDATORY" ELSE "OPTIONAL"
        IN  /\ f.requiredness = expected
            /\ f.requirednessForUser = expected

-----------------------------------------------------------------------------
(* C20: For every mutation tool, the error returned when a Modify/action, Edit or Commit
   step is answered with a non-2xx response includes the HTTP status code of that
   response and, after it, the response body verbatim. *)

StatusAndBodyIn(text, r) ==
    LET body == BodyText(r.body)
        n == Len(text) - Len(body)
    IN  /\ n >= 1
        /\ SubSeq(text, n + 1, Len(text)) = body
        /\ \E k \in 1..n : text[k] = ToString(r.status)

C20_ErrorHasStatusAndBody ==
    \A p \in Procs :
        (/\ inv[p].tool \in MutationTools
         /\ inv[p].pc \in {"modifyResponse", "movementResponse", "editResponse",
                           "commitResponse"}) =>
            \A r \in Responses :
                (~r.net /\ r.status \notin 200..299) =>
                    /\ After(p, r).pc = "returned"
                    /\ After(p, r).result.kind = "content"
                    /\ StatusAndBodyIn(After(p, r).result.text, r)

-----------------------------------------------------------------------------
(* C21: update_work_item sends, in this order, a Modify PATCH
   (actionName=Modify&operation=Edit) with the body {}, then one Edit PATCH carrying all
   the fields as name/value descriptors, then one Commit PATCH; a rejected Modify ends
   the invocation with no Edit and no Commit. *)

C21_ModifyEditCommit ==
    \A p \in Procs :
        inv[p].tool = "update_work_item" =>
            LET reqs == AuthenticatedRequests(inv[p].trace)
                t == inv[p].trace
                a == inv[p].args
            IN  /\ Len(reqs) <= 3
                /\ \A k \in 1..Len(reqs) :
                      /\ reqs[k].method = "PATCH"
                      /\ reqs[k].url.path = <<"records", "WorkItem", a.dbid>>
                /\ Len(reqs) >= 1 =>
                      /\ reqs[1].url.actionName = "Modify"
                      /\ reqs[1].url.operation = "Edit"
                      /\ reqs[1].body = [kind |-> "{}"]
                /\ Len(reqs) >= 2 =>
                      /\ reqs[2].url.actionName = Undefined
                      /\ reqs[2].url.operation = "Edit"
                      /\ reqs[2].body.kind = "fields"
                      /\ Len(reqs[2].body.fields) = Len(a.fields)
                      /\ \A i \in 1..Len(a.fields) :
                            reqs[2].body.fields[i] =
                                [name |-> a.fields[i].name, value |-> a.fields[i].value]
                /\ Len(reqs) = 3 =>
                      /\ reqs[3].url.actionName = Undefined
                      /\ reqs[3].url.operation = "Commit"
                /\ \A k \in 2..Len(t) :
                      (/\ FailedResponse(t[k])
                       /\ IsAuthenticated(t[k - 1])
                       /\ t[k - 1].url.actionName = "Modify") =>
                          /\ Len(reqs) = 1
                          /\ Returned(p)
                          /\ ErrorOutcome(inv[p].result)

\* A work item has been updated: Modify, Edit and Commit were sent and answered OK.
C21_Witness ==
    /\ inv["p1"].tool = "update_work_item"
    /\ Returned("p1")
    /\ Len(AuthenticatedRequests(inv["p1"].trace)) = 3
    /\ inv["p1"].result.text[1] = "Work item"

-----------------------------------------------------------------------------
(* C22: For every list of query rows get_available_projects renders 'Projects retrieved:'
   followed by the JSON list of the rows' displayName values, one per row and in row
   order: the rows Alpha, Beta give ["Alpha","Beta"]. *)

\* Row lists the result page may hold.
RowLists == {<<>>, <<RowAlpha>>, <<RowBeta>>, <<RowAlpha, RowBeta>>, <<RowBeta, RowAlpha>>}

RowsPage(rows) == HttpResponse(200, JsonBody(JObject([rows |-> rows])))

\* "a","b",... for the display names of rows.
RECURSIVE NameList(_)
NameList(rows) ==
    IF rows = <<>> THEN <<>>
    ELSE <<"\"", Head(rows).displayName, "\"">>
         \o (IF Tail(rows) = <<>> THEN <<>> ELSE <<",">> \o NameList(Tail(rows)))

C22_ProjectsRendered ==
    \A p \in Procs :
        (inv[p].tool = "get_available_projects" /\ inv[p].pc = "projectsResponse") =>
            /\ \A rows \in RowLists :
                  /\ After(p, RowsPage(rows)).pc = "returned"
                  /\ After(p, RowsPage(rows)).result =
                         [kind |-> "content",
                          text |-> <<"Projects retrieved:", "[">> \o NameList(rows) \o <<"]">>]
            /\ After(p, RowsPage(<<RowAlpha, RowBeta>>)).result.text =
                   <<"Projects retrieved:", "[", "\"", "Alpha", "\"", ",", "\"", "Beta", "\"", "]">>

\* The rows Alpha, Beta have been received and rendered.
C22_Witness ==
    /\ inv["p1"].tool = "get_available_projects"
    /\ Returned("p1")
    /\ inv["p1"].result.text =
           <<"Projects retrieved:", "[", "\"", "Alpha", "\"", ",", "\"", "Beta", "\"", "]">>

-----------------------------------------------------------------------------
(* C23: get_work_items filters by the owner given: when the owner argument is supplied the
   query restricts the Owner field to that value, so two invocations that differ only in
   owner submit different filters. *)

\* The first request the handler of tool sends when called with args on a cached session.
FirstRequest(tool, args) == Begin([Idle EXCEPT !.tool = tool, !.args = args], "c1").trace[1]

C23_OwnerFilterUsesOwner ==
    \A p \in Procs :
        (inv[p].tool = "get_work_items" /\ AuthenticatedRequests(inv[p].trace) # <<>>) =>
            LET query == AuthenticatedRequests(inv[p].trace)[1]
                a == inv[p].args
            IN  /\ a.owner # Undefined =>
                      \E i \in 1..Len(query.body.fieldFilters) :
                          /\ query.body.fieldFilters[i].fieldPath = "Owner"
                          /\ query.body.fieldFilters[i].values = <<a.owner>>
                /\ FirstRequest("get_work_items", [a EXCEPT !.owner = "alice"]).body
                       # FirstRequest("get_work_items", [a EXCEPT !.owner = "bob"]).body

-----------------------------------------------------------------------------
(* C24: get_available_components and get_available_workitem_types return the components
   and work item types of the project named by projectId: the query they submit depends
   on the projectId argument. *)

C24_QueryDependsOnProject ==
    \A p \in Procs :
        (/\ inv[p].tool \in {"get_available_components", "get_available_workitem_types"}
         /\ AuthenticatedRequests(inv[p].trace) # <<>>) =>
            /\ AuthenticatedRequests(inv[p].trace)[1].body =
                   FirstRequest(inv[p].tool, inv[p].args).body
            /\ FirstRequest(inv[p].tool, [inv[p].args EXCEPT !.projectId = "P1"])
                   # FirstRequest(inv[p].tool, [inv[p].args EXCEPT !.projectId = "P2"])

-----------------------------------------------------------------------------
(* C25: At every moment at most one session acquisition (bootstrap GET) is in flight in
   the process, also when several tool invocations start while the session slot is
   empty and the host runtime interleaves them. *)

\* The activations suspended at the bootstrap GET of getCookiesFromServer.
Acquiring == {p \in Procs : inv[p].pc = "getCookiesFromServer"}

C25_OneAcquisitionInFlight == Cardinality(Acquiring) <= 1

-----------------------------------------------------------------------------
(* C26: The race between concurrent first calls that each acquire a session is harmless.
   In every interleaving, an invocation whose own acquisition succeeded sends each of its
   authenticated requests with a non-empty Cookie header holding a cookie a successful
   bootstrap returned; and the slot holds the cookie written by the last successful
   acquisition: an acquisition that succeeds writes its cookie, one that fails leaves
   the cookie of an earlier successful one in place. *)

\* Activation p acquired a session itself, and the acquisition succeeded.
OwnAcquisitionSucceeded(p) ==
    /\ Len(inv[p].trace) >= 2
    /\ IsBootstrap(inv[p].trace[1])
    /\ ~Falsy(getCookiesFromServer(inv[p].trace[2]))

C26_CookieOnEveryRequest ==
    \A p \in Procs :
        OwnAcquisitionSucceeded(p) =>
            \A i \in 1..Len(inv[p].trace) :
                IsAuthenticated(inv[p].trace[i]) => inv[p].trace[i].cookie \in Cookies

C26_LastSuccessfulWins ==
    \A p \in Procs :
        (inv[p].pc = "getCookiesFromServer" /\ inv'[p].pc # "getCookiesFromServer") =>
            LET cookies == getCookiesFromServer(inv'[p].trace[2])
            IN  IF Falsy(cookies)
                THEN globalCookies' = globalCookies \/ Falsy(globalCookies)
                ELSE globalCookies' = cookies

C26_RaceIsHarmless == []C26_CookieOnEveryRequest /\ [][C26_LastSuccessfulWins]_vars

-----------------------------------------------------------------------------
(* C27: Within one tool invocation HTTP calls are strictly sequential: a request is sent
   only when every earlier request of the invocation has been answered.  An invocation
   of create_or_update_release with N fields sends its Edit PATCHes one per field in the
   order of the fields argument, each directly after an OK answer (or as the first
   request of an update), and sends one Commit, after the N-th Edit was answered OK, as
   its last request; an invocation that reports success has sent exactly N Edit PATCHes
   and exactly one Commit. *)

IsEditPatch(e) == IsRequest(e) /\ e.method = "PATCH" /\ e.url.operation = "Edit"

\* The positions of trace whose event satisfies Test, in ascending order.
Positions(trace, Test(_)) ==
    LET RECURSIVE upTo(_)
        upTo(n) == IF n = 0 THEN <<>>
                   ELSE IF Test(trace[n]) THEN Append(upTo(n - 1), n) ELSE upTo(n - 1)
    IN  upTo(Len(trace))

\* The request at position j is the first authenticated request of the invocation, or
\* directly follows an OK answer.
SentAfterOk(trace, j) ==
    \/ AuthenticatedRequests(SubSeq(trace, 1, j - 1)) = <<>>
    \/ OkResponse(trace[j - 1])

C27_SequentialEdits ==
    \A p \in Procs :
        LET t == inv[p].trace
            fields == inv[p].args.fields
            edits == Positions(t, IsEditPatch)
            commits == Positions(t, IsCommit)
        IN  /\ \A j \in 1..(Len(t) - 1) : IsRequest(t[j]) => IsResponse(t[j + 1])
            /\ inv[p].tool = "create_or_update_release" =>
                  /\ Len(edits) <= Len(fields)
                  /\ \A k \in 1..Len(edits) :
                        /\ Len(t[edits[k]].body.fields) = 1
                        /\ t[edits[k]].body.fields[1].name = fields[k].name
                        /\ SentAfterOk(t, edits[k])
                  /\ Len(commits) <= 1
                  /\ \A c \in 1..Len(commits) :
                        /\ Len(edits) = Len(fields)
                        /\ commits[c] = edits[Len(fields)] + 2
                        /\ OkResponse(t[commits[c] - 1])
                        /\ \A j \in (commits[c] + 1)..Len(t) : ~IsRequest(t[j])
                  /\ (Returned(p) /\ ~ErrorOutcome(inv[p].result)
                          /\ inv[p].result.kind = "content") =>
                        Len(edits) = Len(fields) /\ Len(commits) = 1

\* A release with two fields was created: two Edit PATCHes, then the Commit.
C27_Witness ==
    /\ inv["p1"].tool = "create_or_update_release"
    /\ Len(inv["p1"].args.fields) = 2
    /\ Returned("p1")
    /\ inv["p1"].result.text[1] = "Release created successfully:"
    /\ Len(Positions(inv["p1"].trace, IsEditPatch)) = 2

-----------------------------------------------------------------------------
(* C28: A mutation tool returns an error text only if the backend did not accept the
   final Commit: an invocation whose Commit request was answered with a 2xx status
   reports success, whatever the body of that answer. *)

\* The Commit request of the trace was answered with a 2xx status.
CommitAccepted(trace) ==
    \E j \in 1..(Len(trace) - 1) : IsCommit(trace[j]) /\ OkResponse(trace[j + 1])

C28_AcceptedCommitIsSuccess ==
    \A p \in Procs :
        (/\ inv[p].tool \in MutationTools
         /\ Returned(p)
         /\ CommitAccepted(inv[p].trace)) =>
            ~ErrorOutcome(inv[p].result)

-----------------------------------------------------------------------------
(* C29: Write sequences on one entity are not interleaved.  For two concurrent
   invocations of update_work_item or change_work_item_state on the same dbid, no
   Modify/action, Edit or Commit request of one is sent between the first write request
   and the Commit of the other: while one invocation has sent a write request and its
   Commit has not been answered, the other one sends no write request. *)

WorkItemWriters == {"update_work_item", "change_work_item_state"}

IsWrite(e) == IsRequest(e) /\ e.method = "PATCH"

\* Activation p has sent its first write request, and its Commit is not yet answered.
InWriteSequence(p) ==
    /\ inv[p].tool \in WorkItemWriters
    /\ ~Returned(p)
    /\ \E j \in 1..Len(inv[p].trace) : IsWrite(inv[p].trace[j])

\* Activation p sends a write request in this step.
SendsWrite(p) ==
    /\ Len(inv'[p].trace) > Len(inv[p].trace)
    /\ IsWrite(inv'[p].trace[Len(inv'[p].trace)])

C29_WritesNotInterleaved ==
    [][\A p, q \in Procs :
          (/\ p # q
           /\ InWriteSequence(p)
           /\ inv[q].tool \in WorkItemWriters
           /\ inv[q].args.dbid = inv[p].args.dbid) => ~SendsWrite(q)]_vars

-----------------------------------------------------------------------------
(* C30: In create mode of create_or_update_sprint and create_or_update_release, every Edit
   and Commit request targets the dbId the create POST returned, and the Commit
   payload's dbId equals it; when the OK answer to the create POST carries no dbId, no
   Edit or Commit request is issued. *)

\* The dbId member of an answer, undefined when the answer has none.
ReturnedDbId(r) == IF Parses(r) THEN Get(Json(r), "dbId") ELSE Undefined

C30_CreateTargetsReturnedDbId ==
    \A p \in Procs :
        (inv[p].tool \in {"create_or_update_sprint", "create_or_update_release"}
         /\ Falsy(inv[p].args.dbid)) =>
            LET t == inv[p].trace
                entityType == EntityOf(inv[p].tool)
            IN  /\ \A j \in 1..Len(t) :
                      (IsEditPatch(t[j]) \/ IsCommit(t[j])) =>
                          /\ t[j].url.path = RecordUrl(entityType, inv[p].targetDbid).path
                          /\ IsCommit(t[j]) => t[j].body.dbId = inv[p].targetDbid
                /\ inv[p].pc = "createResponse" =>
                      \A r \in Responses :
                          Ok(r) =>
                              IF ReturnedDbId(r) = Undefined
                              THEN After(p, r).pc = "returned"
                              ELSE After(p, r).targetDbid = ReturnedDbId(r)

====
